---- MODULE Spec2Model ----
(***************************************************************************)
(* Model of the reminder session engine of dutyscdp_bot (bot.py) together  *)
(* with the push path of the webhook router (server.py).                   *)
(*                                                                         *)
(* The bot runs on one asyncio event loop: code between two awaits is one  *)
(* atomic step.  Every action below is the code between two suspension     *)
(* points of one task.  A message counts as sent when send_message is      *)
(* called (the request is handed to the Chat Gateway).                     *)
(*                                                                         *)
(* Texts and names are sequences of one-character strings, so that         *)
(* lower(), the \btake\b / \bstop\b searches and the substring tests are   *)
(* computed.  Ids are strings; "" and << >> stand for a missing, None or   *)
(* empty value (the code tests all of them by truthiness only).            *)
(***************************************************************************)
EXTENDS Naturals, Integers, Sequences, FiniteSets, TLC

(***************************************************************************)
(* Bounds                                                                  *)
(***************************************************************************)
\* number of run_session workflows that may ever be started
MaxRuns == 3

RunIds == 1 .. MaxRuns

(***************************************************************************)
(* Characters and strings                                                  *)
(***************************************************************************)
UpperLetters ==
  <<"A","B","C","D","E","F","G","H","I","J","K","L","M",
    "N","O","P","Q","R","S","T","U","V","W","X","Y","Z">>

LowerLetters ==
  <<"a","b","c","d","e","f","g","h","i","j","k","l","m",
    "n","o","p","q","r","s","t","u","v","w","x","y","z">>

Digits == {"0","1","2","3","4","5","6","7","8","9"}

\* str.lower() on one character
LowerChar(c) ==
  IF \E i \in 1 .. 26 : UpperLetters[i] = c
    THEN LowerLetters[CHOOSE i \in 1 .. 26 : UpperLetters[i] = c]
    ELSE c

\* str.lower()
Lower(s) == [i \in 1 .. Len(s) |-> LowerChar(s[i])]

\* the regex class \w
IsWordChar(c) ==
  \/ \E i \in 1 .. 26 : LowerLetters[i] = c \/ UpperLetters[i] = c
  \/ c \in Digits
  \/ c = "_"

\* sub in s
Contains(s, sub) ==
  \E i \in 1 .. (Len(s) + 1) :
    /\ i + Len(sub) - 1 <= Len(s)
    /\ \A j \in 1 .. Len(sub) : s[i + j - 1] = sub[j]

\* re.search(r"\bw\b", s) for a word w made of word characters
HasWord(s, w) ==
  \E i \in 1 .. Len(s) :
    /\ i + Len(w) - 1 <= Len(s)
    /\ \A j \in 1 .. Len(w) : s[i + j - 1] = w[j]
    /\ (i = 1 \/ ~IsWordChar(s[i - 1]))
    /\ (i + Len(w) > Len(s) \/ ~IsWordChar(s[i + Len(w)]))

\* str.strip(), for the blank
RECURSIVE Strip(_)
Strip(str) ==
  IF str # << >> /\ str[1] = " " THEN Strip(Tail(str))
  ELSE IF str # << >> /\ str[Len(str)] = " "
    THEN Strip(SubSeq(str, 1, Len(str) - 1))
  ELSE str

(***************************************************************************)
(* Program constants                                                       *)
(***************************************************************************)
BOT_USERNAME ==
  <<"s","c","d","p","-","p","l","a","t","f","o","r","m","-","b","o","t">>

TakeWord == <<"t","a","k","e">>
StopWord == <<"s","t","o","p">>

(***************************************************************************)
(* Contact directory (configuration)                                       *)
(***************************************************************************)
AliceLdap == <<"a","l">>
BobLdap == <<"b","o">>
RandomLdap == <<"r","x">>

CarolLdap == <<"c","@","x">>

\* Contact: key, ldap (the chat handle) and ldap_oncall (the identifier in
\* the on-call source, << >> if none)
Alice == [key |-> "alice", ldap |-> AliceLdap, ldap_oncall |-> << >>]
Bob == [key |-> "bob", ldap |-> BobLdap, ldap_oncall |-> <<"r","o">>]
Carol == [key |-> "carol", ldap |-> CarolLdap, ldap_oncall |-> <<"R","o">>]

\* self._config.contacts
ConfigContacts == {Alice, Bob, Carol}

\* self._config.contacts.values(), in the order of the configuration
ContactDirectory == <<Alice, Bob, Carol>>

\* keys a /trigger request may carry
TriggerKeys == {"alice", "nobody"}

\* self._config.contacts.get(key); << >> is None
ContactsGet(key) ==
  IF \E c \in ConfigContacts : c.key = key
    THEN <<CHOOSE c \in ConfigContacts : c.key = key>>
    ELSE << >>

\* contact lists the notify-today procedure may resolve: the mapped on-call
\* contacts, two, in gateway order (a session of one contact is started by
\* trigger_contact)
DailyContactLists == {<<Bob, Alice>>}

\* Schedule.weekday_to_contact of the configuration: Monday, Tuesday and
\* Saturday are mapped, the other weekdays are not
WeekdayToContact == (0 :> Bob) @@ (1 :> Alice) @@ (5 :> Bob)

\* the text of a row without a contact; like a handle it is a sequence of
\* characters, and no handle equals it
Unassigned == <<"-">>

(***************************************************************************)
(* Chat events                                                             *)
(***************************************************************************)
\* an entry of a mentions / mention_keys list: a str or a dict
MentionStr(s) ==
  [kind |-> "str", str |-> s, name |-> << >>, username |-> << >>,
   key |-> << >>, text |-> << >>]

MentionDict(name, username, key, text) ==
  [kind |-> "dict", str |-> << >>, name |-> name, username |-> username,
   key |-> key, text |-> text]

UAlice == [username |-> << >>, ldap |-> AliceLdap]
UBob == [username |-> << >>, ldap |-> BobLdap]
URandom == [username |-> << >>, ldap |-> RandomLdap]
UBot == [username |-> BOT_USERNAME, ldap |-> BOT_USERNAME]
\* the bot by its username alone, in another case, and by its handle alone
UBotName ==
  [username |-> <<"S","C","D","P","-","P","l","a","t","f","o","r","m","-",
                  "B","o","t">>,
   ldap |-> << >>]
UBotLdap == [username |-> << >>, ldap |-> BOT_USERNAME]

TxtTake == TakeWord
TxtStop == StopWord
TxtBotTake == <<"@">> \o BOT_USERNAME \o <<" ">> \o TakeWord
TxtMixedBotTake ==
  <<"@","S","C","D","P","-","P","l","a","t","f","o","r","m","-","B","o","t",
    " ","T","a","k","e","!">>
\* texts with both keywords, in either order
TxtStopTake == StopWord \o <<" ">> \o TakeWord
TxtTakeStop == <<"T","a","k","e",","," ","S","T","O","P","!">>

Ev(type, id, root_id, text, user, mentions, mention_keys) ==
  [type |-> type, id |-> id, root_id |-> root_id, text |-> text,
   user |-> user, mentions |-> mentions, mention_keys |-> mention_keys]

BotKeys == <<MentionStr(<<"@">> \o AliceLdap), MentionStr(<<"@">> \o BOT_USERNAME)>>
BotMentions == <<MentionDict(<< >>, BOT_USERNAME, << >>, << >>)>>

\* The posts of a thread th.  Post "e1" is Alice's take wherever it is
\* delivered; "e2" is any other polled post; "e3" and "e4" are pushed only.
AliceTake(th) == Ev("message", "e1", th, TxtTake, UAlice, << >>, << >>)
BobTake(id, th) == Ev("message", id, th, TxtTake, UBob, << >>, << >>)
RandomTake(th) == Ev("message", "e3", th, TxtTake, URandom, << >>, << >>)
RandomStop(id, th) == Ev("message", id, th, TxtStop, URandom, << >>, << >>)
RootPost(th) == Ev("message", th, th, TxtBotTake, UBot, << >>, << >>)

\* takes by a user who is no contact, with the bot mentioned in the text, in
\* the mentions list, in props mention_keys
RandomTakesWithMention(th) ==
  { Ev("message", "e3", th, TxtMixedBotTake, URandom, << >>, << >>),
    Ev("message", "e3", th, TxtTake, URandom, BotMentions, << >>),
    Ev("message", "e3", th, TxtTake, URandom, << >>, BotKeys),
    Ev("message", "e2", th, TxtBotTake, URandom, << >>, << >>) }

\* payloads the webhook router may push while th is the thread id of the
\* active session
PushEvents(th) ==
  { AliceTake(th), BobTake("e4", th), RandomTake(th), RandomStop("e3", th) }
  \cup {e \in RandomTakesWithMention(th) : e.id = "e3"}

\* events fetch_thread_events may return for thread th: the root post and
\* replies, each with its post id, without a "mentions" key
PollEvents(th) ==
  { RootPost(th), AliceTake(th), BobTake("e2", th), RandomStop("e2", th) }
  \cup {e \in RandomTakesWithMention(th) : e.id = "e2"}

\* Pushed payloads that do not belong to the thread th: a take of Alice and
\* a stop in another thread, the same two without a post id, a take of Alice
\* in a top-level post (its root id is its own id), and a take of Alice
\* without a root id
OtherThread == "other"
ForeignPushEvents(th) ==
  { Ev("message", "e5", OtherThread, TxtTake, UAlice, << >>, << >>),
    Ev("message", "e5", OtherThread, TxtStop, URandom, << >>, << >>),
    Ev("message", "", OtherThread, TxtTake, UAlice, << >>, << >>),
    Ev("message", "", OtherThread, TxtStop, URandom, << >>, << >>),
    Ev("message", "e6", "e6", TxtTake, UAlice, << >>, << >>),
    Ev("message", "e7", "", TxtTake, UAlice, << >>, << >>) }

\* Payloads pushed when no session is pending: takes of the contacts and a
\* stop, in the thread th
LatePushEvents(th) ==
  { AliceTake(th), BobTake("e4", th), RandomStop("e3", th),
    Ev("message", "e3", th, TxtBotTake, URandom, << >>, << >>) }

\* Messages in the thread th whose text has both keywords: by a contact and
\* by a user who is no contact, with and without the bot in the mentions
StopTakeEvents(th) ==
  { Ev("message", "e7", th, text, user, mentions, << >>) :
      text \in {TxtStopTake, TxtTakeStop}, user \in {UAlice, URandom},
      mentions \in {<< >>, BotMentions} }

\* Payloads that are no messages, with the text of a stop and of a take
NonMessageEvents(th) ==
  { Ev(type, "e5", th, text, UAlice, << >>, << >>) :
      type \in {"reaction", ""}, text \in {TxtStop, TxtTake} }

\* Posts of the bot in the thread th, as pushed payloads: a text with the
\* take keyword that mentions the bot (the reminder has both) and a stop,
\* by each way the author can be the bot
BotPushEvents(th) ==
  { Ev("message", "e8", th, text, user, << >>, << >>) :
      text \in {TxtBotTake, TxtStop}, user \in {UBot, UBotName, UBotLdap} }

\* Posts of the bot in the thread th that fetch_thread_events returns after
\* the root post: a reminder, and a post with the stop keyword
BotPollEvents(th) ==
  { Ev("message", "e9", th, TxtBotTake, UBot, << >>, << >>),
    Ev("message", "e9", th, TxtStop, UBotName, << >>, << >>) }

(***************************************************************************)
(* handle_event, as a function of the active session and the event         *)
(***************************************************************************)
\* an author test that looks at the username alone
IsBotAuthorByUsername(user) == BOT_USERNAME = Lower(user.username)

\* DutyBot._is_bot_author
IsBotAuthor(user) ==
  BOT_USERNAME \in {Lower(user.username), Lower(user.ldap)}

\* the name taken from one mentions entry
MentionName(m) ==
  IF m.kind = "str" THEN m.str
  ELSE IF m.kind = "dict"
    THEN IF m.name # << >> THEN m.name
         ELSE IF m.username # << >> THEN m.username
         ELSE IF m.key # << >> THEN m.key
         ELSE m.text
  ELSE << >>

\* a test that looks at the first entry only
IsBotFirstInMentions(mentions) ==
  Contains(Lower(MentionName(mentions[1])), BOT_USERNAME)

\* DutyBot._is_bot_listed_in_mentions
IsBotListedInMentions(mentions) ==
  \E i \in 1 .. Len(mentions) :
    Contains(Lower(MentionName(mentions[i])), BOT_USERNAME)

\* the values the fields of the events above take
Texts ==
  {TxtTake, TxtStop, TxtBotTake, TxtMixedBotTake, TxtStopTake, TxtTakeStop}
Users == {UAlice, UBob, URandom, UBot, UBotName, UBotLdap}
MentionLists == {BotMentions, BotKeys}

\* The tests of handle_event that depend on one field of the event alone,
\* computed once for every value the field takes ({x : x \in S} lists the
\* elements of S):
\* re.search(r"\btake\b", normalized_text) finds a match
TakeTexts == {x : x \in {t \in Texts : HasWord(Lower(t), TakeWord)}}
\* re.search(r"\bstop\b", normalized_text) finds a match
StopTexts == {x : x \in {t \in Texts : HasWord(Lower(t), StopWord)}}
\* _BOT_USERNAME in normalized_text
BotTexts == {x : x \in {t \in Texts : Contains(Lower(t), BOT_USERNAME)}}
\* self._is_bot_listed_in_mentions(mentions)
BotLists == {x : x \in {m \in MentionLists : IsBotListedInMentions(m)}}
\* self._is_bot_author(user)
BotAuthors == {x : x \in {u \in Users : IsBotAuthor(u)}}

\* DutyBot._is_bot_mentioned
IsBotMentioned(event) ==
  \/ event.text \in BotTexts
  \/ (event.mentions # << >> /\ event.mentions \in BotLists)
  \/ (event.mention_keys # << >> /\ event.mention_keys \in BotLists)

has_take_command(event) == event.text \in TakeTexts
has_stop_command(event) == event.text \in StopTexts

\* {contact.ldap for contact in session.contacts}
known_ldaps(sess) == {sess.contacts[i].ldap : i \in 1 .. Len(sess.contacts)}

\* the thread-scope test of handle_event
InThreadScope(event, thread_id) ==
  ~ ( /\ event.root_id # ""
      /\ event.root_id # thread_id
      /\ (event.id = "" \/ event.root_id # event.id) )

\* the event passes the early returns of handle_event
PassesChecks(sess, event) ==
  /\ event.type = "message"
  /\ InThreadScope(event, sess.thread_id)
  /\ event.user \notin BotAuthors

\* any(...) in the place of all(...)
AnyAcknowledged(contacts, acked) ==
  \E i \in 1 .. Len(contacts) : contacts[i].ldap \in acked

\* all(contact.ldap in acknowledged_ldaps for contact in session.contacts)
AllAcknowledged(contacts, acked) ==
  \A i \in 1 .. Len(contacts) : contacts[i].ldap \in acked

\* a take branch that accepts every author
TakeAcceptedFromAnyone(sess, event) == has_take_command(event)

\* the take branch accepts the author
TakeAccepted(sess, event) ==
  /\ has_take_command(event)
  /\ \/ event.user.ldap \in known_ldaps(sess)
     \/ IsBotMentioned(event)

\* a stop branch that acknowledges without recording the handles
HandleStopFlagOnly(sess) ==
  [sess |-> [sess EXCEPT !.acknowledged = TRUE],
   signal |-> TRUE, reply |-> TRUE]

\* the stop branch
HandleStop(sess) ==
  [sess |-> [sess EXCEPT !.acknowledged_ldaps = @ \cup known_ldaps(sess),
                         !.acknowledged = TRUE],
   signal |-> TRUE, reply |-> TRUE]

\* a take branch that replies only when the take completes the session
HandleTakeQuiet(sess, event) ==
  LET acked == IF event.user.ldap \in known_ldaps(sess)
                 THEN sess.acknowledged_ldaps \cup {event.user.ldap}
                 ELSE sess.acknowledged_ldaps
      all == AllAcknowledged(sess.contacts, acked)
  IN [sess |-> [sess EXCEPT !.acknowledged_ldaps = acked,
                            !.acknowledged = IF all THEN TRUE ELSE @],
      signal |-> all, reply |-> all]

\* a take branch that writes back the handles it read before another
\* delivery added one: the author's handle replaces the set
HandleTakeOverwrites(sess, event) ==
  LET acked == IF event.user.ldap \in known_ldaps(sess)
                 THEN {event.user.ldap}
                 ELSE sess.acknowledged_ldaps
      all == AllAcknowledged(sess.contacts, acked)
  IN [sess |-> [sess EXCEPT !.acknowledged_ldaps = acked,
                            !.acknowledged = IF all THEN TRUE ELSE @],
      signal |-> all, reply |-> TRUE]

\* a take branch that records the handle of every accepted author
HandleTakeAnyAuthor(sess, event) ==
  LET acked == sess.acknowledged_ldaps \cup {event.user.ldap}
      all == AllAcknowledged(sess.contacts, acked)
  IN [sess |-> [sess EXCEPT !.acknowledged_ldaps = acked,
                            !.acknowledged = IF all THEN TRUE ELSE @],
      signal |-> all, reply |-> TRUE]

\* the take branch
HandleTake(sess, event) ==
  LET acked == IF event.user.ldap \in known_ldaps(sess)
                 THEN sess.acknowledged_ldaps \cup {event.user.ldap}
                 ELSE sess.acknowledged_ldaps
      all == AllAcknowledged(sess.contacts, acked)
  IN [sess |-> [sess EXCEPT !.acknowledged_ldaps = acked,
                            !.acknowledged = IF all THEN TRUE ELSE @],
      signal |-> all, reply |-> TRUE]

\* a handle_event that tests the take keyword before the stop keyword
HandleEventTakeFirst(sess, event) ==
  IF ~PassesChecks(sess, event)
    THEN [sess |-> sess, signal |-> FALSE, reply |-> FALSE]
  ELSE IF TakeAccepted(sess, event)
    THEN HandleTake(sess, event)
  ELSE IF has_stop_command(event)
    THEN HandleStop(sess)
  ELSE [sess |-> sess, signal |-> FALSE, reply |-> FALSE]

\* handle_event on an active unacknowledged session: the session afterwards,
\* whether the acknowledgement signal is set, whether the reply is sent
HandleEvent(sess, event) ==
  IF ~PassesChecks(sess, event)
    THEN [sess |-> sess, signal |-> FALSE, reply |-> FALSE]
  ELSE IF has_stop_command(event)
    THEN HandleStop(sess)
  ELSE IF TakeAccepted(sess, event)
    THEN HandleTake(sess, event)
  ELSE [sess |-> sess, signal |-> FALSE, reply |-> FALSE]

\* a pending list that keeps every contact
contacts_all(sess) == sess.contacts

\* DutyBot._contacts_pending_ack
contacts_pending_ack(sess) ==
  SelectSeq(sess.contacts, LAMBDA c : c.ldap \notin sess.acknowledged_ldaps)

\* the handles a message mentions
Mentions(contacts) == [i \in 1 .. Len(contacts) |-> contacts[i].ldap]

(***************************************************************************)
(* State                                                                   *)
(*                                                                         *)
(* A run is one activation of _run_session, a poller the                   *)
(* _poll_session_thread task that run created; both carry the run's id.    *)
(* Only the ReminderSession object that self._session refers to is kept:   *)
(* an object replaced in the slot is reachable only from the local         *)
(* variable of a poller, which compares its identity and nothing else.     *)
(***************************************************************************)
VARIABLES
  stop_event,        \* DutyBot._stop_event is set
  ack_event,         \* DutyBot._ack_event is set
  session,           \* DutyBot._session: a ReminderSession or NoSession (None)
  session_task,      \* DutyBot._session_task: a task identity or NoTask
  thread_poll_task,  \* DutyBot._thread_poll_task: 0 (None) or a poller id
  runs,              \* the _run_session activations, by id
  pollers,           \* the _poll_session_thread tasks, by id
  daily,             \* position of the _daily_notification_loop task
  weekly,            \* position of the _weekly_schedule_loop task
  start_task,        \* position of DutyBot.start
  sent,              \* the gateway calls made by the last step
  resp,              \* the HTTP response the router gave in the last step
  logged,            \* the weekend skip logged by the last step, "" if none
  budget,            \* the number of run_session workflows that may start
  weekly_input,      \* what the weekly procedure finds: today's date, the
                     \* weekends_alerts setting, the on-call range schedule
  daily_input,       \* what notify-today finds: today's date, the
                     \* weekends_alerts setting, the on-call query's outcome
  duty_group         \* the duty group in the Chat Gateway: its member ids,
                     \* the user id of each username, whether it is readable

vars ==
  <<stop_event, ack_event, session, session_task, thread_poll_task, runs,
    pollers, daily, weekly, start_task, sent, resp, logged, budget, weekly_input, daily_input, duty_group>>

\* task identities; FinishedTask is any manual task that has ended
NoTask == <<"none", 0>>
DailyTask == <<"daily", 0>>
ManualTask(r) == <<"manual", r>>
FinishedTask == <<"finished", 0>>

\* the id the Chat Gateway gives to the initial message of run r
MessageIds == <<"msg-1", "msg-2", "msg-3", "msg-4">>

\* ReminderSession; NoSession is None
NoSession ==
  [contacts |-> << >>, thread_id |-> "", message_id |-> "",
   acknowledged |-> FALSE, acknowledged_ldaps |-> {},
   processed_post_ids |-> {}]

NoRun ==
  [pc |-> "unused", task |-> NoTask, contacts |-> << >>, join |-> 0,
   exc |-> FALSE]

\* no HTTP response
NoResp == [status |-> 0, message |-> ""]

\* a poller that does not exist or has finished
NoPoller == [pc |-> "unused", stale |-> FALSE]

\* a poller suspended before the top of its while loop: not yet started, or
\* in the wait for the poll interval (its local session is read again there)
PollerTop == [pc |-> "top", stale |-> FALSE]

\* the inputs of one run of _notify_next_week_schedule: today's date, the
\* weekends_alerts setting and the schedule _load_oncall_schedule returns
\* (empty when the query fails or no on-call source is configured)
WeeklyInput(today, weekends_alerts, oncall_schedule) ==
  [today |-> today, weekends_alerts |-> weekends_alerts,
   oncall_schedule |-> oncall_schedule]

\* the input of the weekly procedure where it is not varied
WeeklyDefault == WeeklyInput(3, FALSE, (7 :> <<Bob, Alice>>))

\* user ids of the Chat Gateway; "" stands for a username that does not
\* resolve (the lookup raises or the profile has no id)
UserIds ==
  (AliceLdap :> "u-al") @@ (BobLdap :> "u-bo") @@ (BOT_USERNAME :> "u-bot")

\* the duty group and the user directory of the Chat Gateway
DutyGroup(members, ids, readable) ==
  [members |-> members, ids |-> ids, readable |-> readable,
   admin_group_id |-> <<"g">>]

\* the same with the setting loop.admin_group_id as given
WithGroupId(group, admin_group_id) ==
  [group EXCEPT !.admin_group_id = admin_group_id]

\* a group that is in sync with the contacts of DailyContactLists
GroupDefault == DutyGroup({"u-al", "u-bo", "u-bot"}, UserIds, TRUE)

\* the outcome of the on-call query of _load_oncall_contacts: whether an
\* on-call client and schedule are configured, whether fetch_current_oncall
\* raises, and the identifiers it returns otherwise
OncallResult(client, raises, ldaps) ==
  [client |-> client, raises |-> raises, ldaps |-> ldaps]

\* the inputs of one run of _notify_today
DailyInput(today, weekends_alerts, oncall) ==
  [today |-> today, weekends_alerts |-> weekends_alerts, oncall |-> oncall]

\* the input of notify-today where it is not varied: a Monday, both
\* contacts on call
DailyDefault ==
  DailyInput(0, FALSE, OncallResult(TRUE, FALSE, <<BobLdap, AliceLdap>>))

\* the state after construction, with the inputs the procedures will find
InitWithDaily(max_runs, inp, group, dinp) ==
  /\ stop_event = FALSE
  /\ ack_event = FALSE
  /\ session = NoSession
  /\ session_task = NoTask
  /\ thread_poll_task = 0
  /\ runs = [r \in RunIds |-> NoRun]
  /\ pollers = [r \in RunIds |-> NoPoller]
  /\ daily = "waiting"
  /\ weekly = "waiting"
  /\ start_task = "waiting"
  /\ sent = << >>
  /\ resp = NoResp
  /\ logged = ""
  /\ budget = max_runs
  /\ weekly_input = inp
  /\ daily_input = dinp
  /\ duty_group = group

InitWith(max_runs, inp, group) ==
  InitWithDaily(max_runs, inp, group, DailyDefault)

Init == InitWith(MaxRuns, WeeklyDefault, GroupDefault)

(***************************************************************************)
(* Helpers                                                                 *)
(***************************************************************************)
\* a run_session workflow occupies slot r
InProgress(r) == runs[r].pc \notin {"unused", "done"}

\* asyncio.Task.done()
TaskDone(t) ==
  IF t[1] = "manual" THEN ~InProgress(t[2])
  ELSE IF t[1] = "daily" THEN daily \in {"stopped", "crashed", "cancelled"}
  ELSE TRUE

\* the id the next run takes, 0 when the bound is reached
NextRun ==
  IF \E r \in 1 .. budget : runs[r].pc = "unused"
    THEN CHOOSE r \in 1 .. budget :
           runs[r].pc = "unused" /\ \A q \in RunIds : q < r => runs[q].pc # "unused"
    ELSE 0

\* self._client.send_message(channel, text, root_id=...); cmd is the command
\* the message confirms, "" if none
Message(kind, root_id, mentions, cmd) ==
  [kind |-> kind, root_id |-> root_id, mentions |-> mentions, cmd |-> cmd]

Send(kind, root_id, mentions, cmd) ==
  sent' = <<Message(kind, root_id, mentions, cmd)>>

\* a call of the On-Call Gateway or of the group methods of the Chat Gateway
GatewayCall(kind) == Message(kind, "", << >>, "")

\* the step calls send_message not at all
NoSend == sent' = << >>

\* the step is no request served by the router
NoResponse == resp' = NoResp

\* the step does not log that a weekend is skipped
NoLog == logged' = ""

\* the loop condition of _reminder_loop
ReminderLoopContinues ==
  session # NoSession /\ ~session.acknowledged

\* the pollers after self._session stopped referring to the object some of
\* them hold
Stale(ps) ==
  [q \in RunIds |->
     IF ps[q].pc = "iter" THEN [ps[q] EXCEPT !.stale = TRUE] ELSE ps[q]]

\* _run_session returns (or raises) to its caller; cleared says whether the
\* last statement of the finally block was reached
LeaveRun(r, failed, cleared) ==
  /\ session_task' =
       IF session_task # runs[r].task THEN session_task
       ELSE IF cleared THEN NoTask
       ELSE IF runs[r].task = DailyTask THEN DailyTask
       ELSE FinishedTask
  /\ runs' = [runs EXCEPT ![r] = [NoRun EXCEPT !.pc = "done"]]
  /\ daily' =
       IF runs[r].task # DailyTask THEN daily
       ELSE IF ~failed THEN "waiting"
       ELSE IF daily = "cancelling" /\ cleared THEN "cancelled"
       ELSE "crashed"

\* the finally block of _run_session up to its first await
EnterFinally(r, failed) ==
  /\ session' = NoSession
  /\ pollers' = Stale(pollers)
  /\ IF thread_poll_task # 0
       THEN /\ runs' = [runs EXCEPT ![r] =
                 [@ EXCEPT !.pc = "join", !.join = thread_poll_task,
                           !.exc = failed, !.contacts = << >>]]
            /\ UNCHANGED <<thread_poll_task, session_task, daily>>
       ELSE /\ UNCHANGED thread_poll_task
            /\ LeaveRun(r, failed, TRUE)

\* what a step of _run_session that stays in the reminder loop leaves alone
StayInLoop ==
  UNCHANGED <<session, session_task, thread_poll_task, daily, pollers>>

(***************************************************************************)
(* Triggers                                                                *)
(***************************************************************************)
\* DutyBot.trigger_contact
trigger_contact(key) ==
  LET contact == ContactsGet(key) IN
  /\ NoSend
  /\ UNCHANGED <<start_task, weekly, budget, weekly_input, daily_input, duty_group, stop_event, ack_event, session, thread_poll_task, pollers,
                 daily>>
  /\ IF contact = << >>
       THEN UNCHANGED <<runs, session_task>>
     ELSE IF session_task # NoTask /\ ~TaskDone(session_task)
       THEN UNCHANGED <<runs, session_task>>
     ELSE /\ NextRun # 0
          /\ runs' = [runs EXCEPT ![NextRun] =
               [NoRun EXCEPT !.pc = "created", !.task = ManualTask(NextRun),
                             !.contacts = contact]]
          /\ session_task' = ManualTask(NextRun)

\* the task created by trigger_contact starts: _run_session up to the await
\* of send_message in _send_initial_message
run_session_start(r) ==
  /\ NoResponse
  /\ NoLog
  /\ runs[r].pc = "created"
  /\ session_task' = runs[r].task
  /\ Send("initial", "", Mentions(runs[r].contacts), "")
  /\ runs' = [runs EXCEPT ![r].pc = "initial"]
  /\ UNCHANGED <<start_task, weekly, budget, weekly_input, daily_input, duty_group, stop_event, ack_event, session, thread_poll_task, pollers,
                 daily>>

\* _daily_notification_loop: the wait times out, _notify_today resolves the
\* contacts and calls _run_session, which runs up to the await of
\* send_message in _send_initial_message
daily_notify(contacts) ==
  /\ NoResponse
  /\ NoLog
  /\ daily = "waiting"
  /\ ~stop_event
  /\ NextRun # 0
  /\ daily' = "running"
  /\ session_task' = DailyTask
  /\ sent' = <<GatewayCall("oncall_query"), GatewayCall("group_read"),
               Message("initial", "", Mentions(contacts), "")>>
  /\ runs' = [runs EXCEPT ![NextRun] =
       [NoRun EXCEPT !.pc = "initial", !.task = DailyTask,
                     !.contacts = contacts]]
  /\ UNCHANGED <<start_task, weekly, budget, weekly_input, daily_input, duty_group, stop_event, ack_event, session,
                 thread_poll_task, pollers>>

\* a weekend test that lets Saturday through
NotifyTodaySkipsSunday(weekday, weekends_alerts) ==
  ~weekends_alerts /\ weekday >= 6

\* _notify_today returns at its first test
NotifyTodaySkips(weekday, weekends_alerts) ==
  ~weekends_alerts /\ weekday >= 5

\* _daily_notification_loop: the wait times out and _notify_today runs on a
\* day with the given weekday, under the given weekends_alerts setting
notify_today(weekday, weekends_alerts, contacts) ==
  IF NotifyTodaySkips(weekday, weekends_alerts)
    THEN /\ daily = "waiting"
         /\ ~stop_event
         /\ NoSend
         /\ NoResponse
         /\ logged' = "skip_weekend"
         /\ UNCHANGED <<start_task, weekly, budget, weekly_input, daily_input, duty_group, stop_event, ack_event,
                        session, session_task, thread_poll_task, runs,
                        pollers, daily>>
    ELSE daily_notify(contacts)

(***************************************************************************)
(* _run_session                                                            *)
(***************************************************************************)
\* _send_initial_message after send_message returned response
NewSession(contacts, response) ==
  LET message_id == response.id
      thread_id == IF response.root_id # "" THEN response.root_id
                   ELSE message_id
  IN [contacts |-> contacts, thread_id |-> thread_id,
      message_id |-> message_id, acknowledged |-> FALSE,
      acknowledged_ldaps |-> {}, processed_post_ids |-> {message_id}]

\* a _run_session that stores the session and leaves the signal as it is
initial_sent_keeps_signal(r) ==
  /\ NoResponse
  /\ NoLog
  /\ runs[r].pc = "initial"
  /\ session' = NewSession(runs[r].contacts,
                           [id |-> MessageIds[r], root_id |-> ""])
  /\ pollers' = [Stale(pollers) EXCEPT ![r] = PollerTop]
  /\ thread_poll_task' = r
  /\ runs' = [runs EXCEPT ![r] = [@ EXCEPT !.pc = "wait", !.contacts = << >>]]
  /\ NoSend
  /\ UNCHANGED <<start_task, weekly, budget, weekly_input, daily_input, duty_group, stop_event, ack_event, session_task, daily>>

\* send_message returned: _send_initial_message builds the session,
\* _run_session stores it, clears the signal, creates the poller task and
\* enters _reminder_loop up to its wait
initial_sent(r) ==
  /\ NoResponse
  /\ NoLog
  /\ runs[r].pc = "initial"
  /\ session' = NewSession(runs[r].contacts,
                           [id |-> MessageIds[r], root_id |-> ""])
  /\ ack_event' = FALSE
  /\ pollers' = [Stale(pollers) EXCEPT ![r] = PollerTop]
  /\ thread_poll_task' = r
  /\ runs' = [runs EXCEPT ![r] = [@ EXCEPT !.pc = "wait", !.contacts = << >>]]
  /\ NoSend
  /\ UNCHANGED <<start_task, weekly, budget, weekly_input, daily_input, duty_group, stop_event, session_task, daily>>

\* send_message raised in _send_initial_message
initial_failed(r) ==
  /\ NoResponse
  /\ NoLog
  /\ runs[r].pc = "initial"
  /\ EnterFinally(r, TRUE)
  /\ NoSend
  /\ UNCHANGED <<start_task, weekly, budget, weekly_input, daily_input, duty_group, stop_event, ack_event>>

\* _reminder_loop: the wait on the acknowledgement signal returns
reminder_signalled(r) ==
  /\ NoResponse
  /\ NoLog
  /\ runs[r].pc = "wait"
  /\ ack_event
  /\ IF ReminderLoopContinues
       THEN StayInLoop /\ UNCHANGED runs
       ELSE EnterFinally(r, FALSE)
  /\ NoSend
  /\ UNCHANGED <<start_task, weekly, budget, weekly_input, daily_input, duty_group, stop_event, ack_event>>

\* _reminder_loop: the reminder interval elapses in the wait (a wait that
\* finds the signal set returns at once)
reminder_timeout(r) ==
  /\ NoResponse
  /\ NoLog
  /\ runs[r].pc = "wait"
  /\ ~ack_event
  /\ runs' = [runs EXCEPT ![r].pc = "timedout"]
  /\ NoSend
  /\ UNCHANGED <<start_task, weekly, budget, weekly_input, daily_input, duty_group, stop_event, ack_event, session, session_task,
                 thread_poll_task, pollers, daily>>

\* a _send_reminder without the test for an empty pending list
send_reminder_unguarded(r) ==
  /\ NoResponse
  /\ NoLog
  /\ runs[r].pc = "timedout"
  /\ IF session # NoSession
       THEN /\ Send("reminder", session.thread_id,
                    Mentions(contacts_pending_ack(session)), "")
            /\ runs' = [runs EXCEPT ![r].pc = "wait"]
            /\ StayInLoop
       ELSE /\ NoSend
            /\ EnterFinally(r, FALSE)
  /\ UNCHANGED <<start_task, weekly, budget, weekly_input, daily_input, duty_group, stop_event, ack_event>>

\* a _send_reminder that posts to the channel, outside the thread
send_reminder_unanchored(r) ==
  /\ NoResponse
  /\ NoLog
  /\ runs[r].pc = "timedout"
  /\ IF session # NoSession /\ contacts_pending_ack(session) # << >>
       THEN /\ Send("reminder", "",
                    Mentions(contacts_pending_ack(session)), "")
            /\ runs' = [runs EXCEPT ![r].pc = "wait"]
            /\ StayInLoop
       ELSE /\ NoSend
            /\ IF ReminderLoopContinues
                 THEN /\ runs' = [runs EXCEPT ![r].pc = "wait"]
                      /\ StayInLoop
                 ELSE EnterFinally(r, FALSE)
  /\ UNCHANGED <<start_task, weekly, budget, weekly_input, daily_input, duty_group, stop_event, ack_event>>

\* _reminder_loop resumes with TimeoutError: _send_reminder, then the loop
\* condition and the next wait.  The await of send_message is not a step of
\* its own: the loop condition that follows it only reads, and it is read
\* again by the step that ends the wait.
send_reminder(r) ==
  /\ NoResponse
  /\ NoLog
  /\ runs[r].pc = "timedout"
  /\ IF session # NoSession /\ contacts_pending_ack(session) # << >>
       THEN /\ Send("reminder", session.thread_id,
                    Mentions(contacts_pending_ack(session)), "")
            /\ runs' = [runs EXCEPT ![r].pc = "wait"]
            /\ StayInLoop
       ELSE /\ NoSend
            /\ IF ReminderLoopContinues
                 THEN /\ runs' = [runs EXCEPT ![r].pc = "wait"]
                      /\ StayInLoop
                 ELSE EnterFinally(r, FALSE)
  /\ UNCHANGED <<start_task, weekly, budget, weekly_input, daily_input, duty_group, stop_event, ack_event>>

\* _send_reminder: send_message raises; the exception leaves
\* _reminder_loop
reminder_failed(r) ==
  /\ NoResponse
  /\ NoLog
  /\ runs[r].pc = "timedout"
  /\ session # NoSession /\ contacts_pending_ack(session) # << >>
  /\ Send("reminder", session.thread_id,
          Mentions(contacts_pending_ack(session)), "")
  /\ EnterFinally(r, TRUE)
  /\ UNCHANGED <<start_task, weekly, budget, weekly_input, daily_input, duty_group, stop_event, ack_event>>

\* the finally block: the awaited poller task has finished by itself
join_done(r) ==
  /\ NoResponse
  /\ NoLog
  /\ runs[r].pc = "join"
  /\ pollers[runs[r].join].pc = "unused"
  /\ thread_poll_task' = 0
  /\ LeaveRun(r, runs[r].exc, TRUE)
  /\ NoSend
  /\ UNCHANGED <<start_task, weekly, budget, weekly_input, daily_input, duty_group, stop_event, ack_event, session, pollers>>

\* the finally block: the grace period elapses; wait_for cancels the awaited
\* poller, then self._thread_poll_task is read again, cancelled and awaited
join_timeout(r) ==
  /\ NoResponse
  /\ NoLog
  /\ runs[r].pc = "join"
  /\ pollers[runs[r].join].pc # "unused"
  /\ IF thread_poll_task = 0
       THEN \* None.cancel() raises AttributeError inside the finally block
            /\ pollers' = [pollers EXCEPT ![runs[r].join] = NoPoller]
            /\ UNCHANGED thread_poll_task
            /\ LeaveRun(r, TRUE, FALSE)
       ELSE /\ pollers' = [q \in RunIds |->
                 IF q \in {runs[r].join, thread_poll_task}
                   THEN NoPoller
                   ELSE pollers[q]]
            /\ thread_poll_task' = 0
            /\ LeaveRun(r, runs[r].exc, TRUE)
  /\ NoSend
  /\ UNCHANGED <<start_task, weekly, budget, weekly_input, daily_input, duty_group, stop_event, ack_event, session>>

(***************************************************************************)
(* handle_event on the bot                                                 *)
(***************************************************************************)
\* a handle_event that goes on in a session already acknowledged
handle_event_on_acknowledged(sess, event) ==
  IF sess = NoSession
    THEN [sess |-> sess, signal |-> FALSE, reply |-> FALSE]
    ELSE HandleEvent(sess, event)

\* handle_event from its first line, on the session object sess that
\* self._session refers to
handle_event_on(sess, event) ==
  IF sess = NoSession \/ sess.acknowledged
    THEN [sess |-> sess, signal |-> FALSE, reply |-> FALSE]
    ELSE HandleEvent(sess, event)

\* the keywords of the event a confirmation answers (the text of the
\* confirmation is the same for all)
Keywords(event) ==
  IF has_stop_command(event) /\ has_take_command(event) THEN "stop_take"
  ELSE IF has_stop_command(event) THEN "stop"
  ELSE "take"

\* the writes of one handle_event call
ApplyOutcome(event, out) ==
  /\ session' = out.sess
  /\ ack_event' = IF out.signal THEN TRUE ELSE ack_event
  /\ IF out.reply
       THEN Send("ack", out.sess.thread_id, << >>,
                 Keywords(event))
       ELSE NoSend

\* the thread id a pushed payload may refer to
CurrentThread == IF session # NoSession THEN session.thread_id ELSE "zz"

\* the payloads the webhook router may push now.  Without a pending session
\* handle_event returns at its first test whatever the payload is: one
\* payload stands for all
PushBatch ==
  IF session # NoSession /\ ~session.acknowledged
    THEN PushEvents(session.thread_id)
    ELSE {AliceTake("zz")}

\* WebhookServer._handle_payload, path "/": handle_event(payload) is run on
\* the event loop
handle_push(event) ==
  /\ NoResponse
  /\ NoLog
  /\ UNCHANGED <<start_task, weekly, budget, weekly_input, daily_input, duty_group, stop_event, session_task, thread_poll_task, runs, pollers,
                 daily>>
  /\ ApplyOutcome(event, handle_event_on(session, event))

(***************************************************************************)
(* _poll_session_thread                                                    *)
(***************************************************************************)
\* the test after the for loop, then the wait for the poll interval
AfterBatch(p) ==
  IF session' = NoSession \/ session'.acknowledged
    THEN pollers' = [pollers EXCEPT ![p] = NoPoller]
    ELSE pollers' = [pollers EXCEPT ![p] = PollerTop]

\* the top of the while loop (first entry, or after the poll interval
\* elapsed or the stop event was set during it) up to the await of
\* fetch_thread_events
poll_top(p) ==
  /\ NoResponse
  /\ NoLog
  /\ pollers[p].pc = "top"
  /\ IF stop_event \/ session = NoSession \/ session.acknowledged
       THEN pollers' = [pollers EXCEPT ![p] = NoPoller]
       ELSE pollers' = [pollers EXCEPT ![p] = [pc |-> "iter", stale |-> FALSE]]
  /\ NoSend
  /\ UNCHANGED <<start_task, weekly, budget, weekly_input, daily_input, duty_group, stop_event, ack_event, session, session_task,
                 thread_poll_task, runs, daily>>

\* the thread the batch of poller p was fetched for
PollThread(p) ==
  IF pollers[p].pc = "iter" /\ ~pollers[p].stale /\ session # NoSession
    THEN session.thread_id
    ELSE "zz"

\* the batch poller p iterates over.  A poller whose session is gone breaks
\* at the first event whatever it is: one event stands for all
PollBatch(p) ==
  IF PollThread(p) = "zz" THEN {AliceTake("zz")} ELSE PollEvents(PollThread(p))

\* the for loop of poller p, reaching event, passes the session test and the
\* processed-ids test
PollDelivers(p, event) ==
  /\ pollers[p].pc = "iter"
  /\ ~pollers[p].stale
  /\ session # NoSession
  /\ ~(event.id # "" /\ event.id \in session.processed_post_ids)

\* a for loop that hands the event over without recording its id
MarkNothing(sess, event) == sess

\* the for loop records the id of the event it is about to hand over
MarkProcessed(sess, event) ==
  [sess EXCEPT !.processed_post_ids =
     IF event.id # "" THEN @ \cup {event.id} ELSE @]

\* one iteration of the for loop over the fetched batch; the batch is read
\* one event at a time.  The await of send_message at the end of
\* handle_event is not a step of its own: nothing after it writes, and the
\* test that follows it is made again by the next iteration.
poll_event(p, event) ==
  /\ NoResponse
  /\ NoLog
  /\ pollers[p].pc = "iter"
  /\ UNCHANGED <<start_task, weekly, budget, weekly_input, daily_input, duty_group, stop_event, session_task, thread_poll_task, runs, daily>>
  /\ IF session = NoSession \/ pollers[p].stale
       THEN \* break
            /\ NoSend
            /\ UNCHANGED <<session, ack_event>>
            /\ AfterBatch(p)
     ELSE IF event.id # "" /\ event.id \in session.processed_post_ids
       THEN \* continue
            /\ NoSend
            /\ UNCHANGED <<session, ack_event, pollers>>
     ELSE LET marked == MarkProcessed(session, event)
              out == handle_event_on(marked, event)
          IN /\ ApplyOutcome(event, out)
             /\ IF out.sess.acknowledged
                  THEN AfterBatch(p)
                  ELSE UNCHANGED pollers

\* the for loop ends: the batch is exhausted (a failed fetch is an empty
\* batch)
poll_batch_end(p) ==
  /\ NoResponse
  /\ NoLog
  /\ pollers[p].pc = "iter"
  /\ NoSend
  /\ UNCHANGED <<start_task, weekly, budget, weekly_input, daily_input, duty_group, stop_event, ack_event, session, session_task,
                 thread_poll_task, runs, daily>>
  /\ AfterBatch(p)

\* a fetch failure that ends the poller
fetch_failed_fatal(p) ==
  /\ NoResponse
  /\ logged' = "fetch_failed"
  /\ pollers[p].pc = "iter"
  /\ NoSend
  /\ UNCHANGED <<start_task, weekly, budget, weekly_input, daily_input, duty_group, stop_event, ack_event, session, session_task,
                 thread_poll_task, runs, daily>>
  /\ pollers' = [pollers EXCEPT ![p] = NoPoller]

\* fetch_thread_events raised: the failure is logged, the batch is empty,
\* the for loop has no iteration
fetch_failed(p) ==
  /\ NoResponse
  /\ logged' = "fetch_failed"
  /\ pollers[p].pc = "iter"
  /\ NoSend
  /\ UNCHANGED <<start_task, weekly, budget, weekly_input, daily_input, duty_group, stop_event, ack_event, session, session_task,
                 thread_poll_task, runs, daily>>
  /\ AfterBatch(p)

(***************************************************************************)
(* ping_contact, the on-call trigger and the webhook router                *)
(***************************************************************************)
\* the value trigger_contact returns
trigger_contact_returns(key) ==
  IF ContactsGet(key) = << >> THEN FALSE
  ELSE IF session_task # NoTask /\ ~TaskDone(session_task) THEN FALSE
  ELSE TRUE

\* a ping_contact that returns True for any key
ping_contact_returns_always(key) == TRUE

\* the value ping_contact returns, if send_message does not raise
ping_contact_returns(key) == ContactsGet(key) # << >>

\* a ping_contact that sends to the whole directory
ping_contact_all(key) ==
  /\ IF ContactsGet(key) = << >>
       THEN NoSend
       ELSE Send("initial", "", Mentions(<<Bob, Alice>>), "")
  /\ UNCHANGED <<start_task, weekly, budget, weekly_input, daily_input, duty_group, stop_event, ack_event, session,
                 session_task, thread_poll_task, runs, pollers, daily>>

\* DutyBot.ping_contact: the initial-message text for the one contact is
\* sent as a top-level message; nothing is written
ping_contact(key) ==
  /\ IF ContactsGet(key) = << >>
       THEN NoSend
       ELSE Send("initial", "", Mentions(ContactsGet(key)), "")
  /\ UNCHANGED <<start_task, weekly, budget, weekly_input, daily_input, duty_group, stop_event, ack_event, session,
                 session_task, thread_poll_task, runs, pollers, daily>>

\* the value trigger_oncall_duty returns for the contacts the on-call path
\* resolves
trigger_oncall_duty_returns(contacts) ==
  IF session_task # NoTask /\ ~TaskDone(session_task) THEN FALSE
  ELSE contacts # << >>

\* DutyBot.trigger_oncall_duty: refused while a session is in progress or
\* when no on-call contact resolves; else the on-call path of notify-today
\* is started at once as the session task
trigger_oncall_duty(contacts) ==
  /\ NoSend
  /\ UNCHANGED <<start_task, weekly, budget, weekly_input, daily_input, duty_group, stop_event, ack_event, session,
                 thread_poll_task, pollers, daily>>
  /\ IF ~trigger_oncall_duty_returns(contacts)
       THEN UNCHANGED <<runs, session_task>>
       ELSE /\ NextRun # 0
            /\ runs' = [runs EXCEPT ![NextRun] =
                 [NoRun EXCEPT !.pc = "created", !.task = ManualTask(NextRun),
                               !.contacts = contacts]]
            /\ session_task' = ManualTask(NextRun)

\* str.rstrip("/")
RECURSIVE RStripSlash(_)
RStripSlash(path) ==
  IF path # << >> /\ path[Len(path)] = "/"
    THEN RStripSlash(SubSeq(path, 1, Len(path) - 1))
    ELSE path

\* normalized_path = path.rstrip("/") or "/"
NormalizedPath(path) ==
  IF RStripSlash(path) = << >> THEN <<"/">> ELSE RStripSlash(path)

TriggerPath == <<"/", "t", "r", "i", "g", "g", "e", "r">>
PingPath == <<"/", "p", "i", "n", "g">>
DutyOncallPath ==
  <<"/", "d", "u", "t", "y", "_", "o", "n", "c", "a", "l", "l">>
RootPath == <<"/">>

\* request paths and payloads
Paths ==
  { TriggerPath, PingPath \o <<"/">>, DutyOncallPath, RootPath, << >>,
    <<"/", "x">> }
Payloads == {[contact |-> "alice"], [contact |-> "nobody"], [contact |-> ""]}

Response(status, message) == [status |-> status, message |-> message]

\* a router that answers a rejected trigger with 200
TriggerResponseOk(scheduled) == Response(200, "Reminder started")

\* the response of path /trigger to the value trigger_contact returned
TriggerResponse(scheduled) ==
  IF scheduled THEN Response(200, "Reminder started")
  ELSE Response(409, "Session already in progress or contact unknown")

\* the response of path /ping to the value ping_contact returned
PingResponse(was_sent) ==
  IF was_sent THEN Response(200, "Ping sent")
  ELSE Response(404, "Contact unknown")

\* a router that answers a refused on-call trigger with 200
DutyOncallResponseOk(scheduled) ==
  Response(200, "On-call duty reminder started")

\* the response of path /duty_oncall to the value trigger_oncall_duty
\* returned
DutyOncallResponse(scheduled) ==
  IF scheduled THEN Response(200, "On-call duty reminder started")
  ELSE Response(409,
         "Session already in progress or no on-call contacts available")

\* what a request that calls nothing on the bot leaves alone
NoCall ==
  /\ NoSend
  /\ UNCHANGED <<start_task, weekly, budget, weekly_input, daily_input, duty_group, stop_event, ack_event, session,
                 session_task, thread_poll_task, runs, pollers, daily>>

\* _handle_payload, path /trigger
http_trigger(path, payload) ==
  /\ NoLog
  /\ NormalizedPath(path) = TriggerPath
  /\ IF payload.contact = ""
       THEN NoCall /\ resp' = Response(400, "Missing contact")
       ELSE /\ trigger_contact(payload.contact)
            /\ resp' = TriggerResponse(trigger_contact_returns(payload.contact))

\* _handle_payload, path /ping; failed says that send_message raised
http_ping(path, payload, failed) ==
  /\ NoLog
  /\ NormalizedPath(path) = PingPath
  /\ IF payload.contact = ""
       THEN NoCall /\ resp' = Response(400, "Missing contact")
       ELSE /\ ping_contact(payload.contact)
            /\ resp' =
                 IF failed /\ ContactsGet(payload.contact) # << >>
                   THEN Response(500, "error")
                   ELSE PingResponse(ping_contact_returns(payload.contact))

\* _handle_payload, path /duty_oncall
http_duty_oncall(path, contacts) ==
  /\ NoLog
  /\ NormalizedPath(path) = DutyOncallPath
  /\ trigger_oncall_duty(contacts)
  /\ resp' = DutyOncallResponse(trigger_oncall_duty_returns(contacts))

\* _handle_payload, path /: handle_event is handed to the event loop (it
\* runs as handle_push) and the request is answered
http_event(path) ==
  /\ NoLog
  /\ NormalizedPath(path) = RootPath
  /\ NoCall
  /\ resp' = Response(200, "")

\* _handle_payload, any other path
http_not_found(path) ==
  /\ NoLog
  /\ NormalizedPath(path) \notin {TriggerPath, PingPath, DutyOncallPath, RootPath}
  /\ NoCall
  /\ resp' = Response(404, "Not found")

(***************************************************************************)
(* _weekly_schedule_loop                                                   *)
(***************************************************************************)
\* date.weekday() of day number d; day 0 is a Monday
Weekday(d) == d % 7

\* the coming Monday, today itself when today is a Monday
NextWeekMondayOrToday(today) == today + ((7 - Weekday(today)) % 7)

\* DutyBot._next_week_monday
NextWeekMonday(today) == today + (7 - Weekday(today))

\* Schedule.contact_for: the contact mapped to the weekday of day d, << >>
\* for None
ContactFor(d) ==
  IF Weekday(d) \in DOMAIN WeekdayToContact
    THEN <<WeekdayToContact[Weekday(d)]>>
    ELSE << >>

\* f"{contact.full_name} (@{contact.ldap})" of each contact, joined
DutyNames(contacts) == [i \in 1 .. Len(contacts) |-> contacts[i].ldap]

\* dict.get(day, [])
ScheduleGet(oncall_schedule, d) ==
  IF d \in DOMAIN oncall_schedule THEN oncall_schedule[d] ELSE << >>

\* a loop body that never skips a weekend day
ScheduleRowUnskipped(next_monday, oncall_schedule, weekends_alerts, weekday) ==
  LET current_day == next_monday + weekday
      contacts == ScheduleGet(oncall_schedule, current_day)
  IN <<[weekday |-> weekday, day |-> current_day,
        duty |-> IF contacts # << >> THEN DutyNames(contacts)
                 ELSE IF ContactFor(current_day) # << >>
                   THEN DutyNames(ContactFor(current_day))
                 ELSE <<Unassigned>>]>>

\* the body of the loop of _build_next_week_schedule_message for one
\* weekday: no row or one row
ScheduleRow(next_monday, oncall_schedule, weekends_alerts, weekday) ==
  LET current_day == next_monday + weekday
      contacts == ScheduleGet(oncall_schedule, current_day)
  IN IF ~weekends_alerts /\ weekday >= 5 THEN << >>
     ELSE <<[weekday |-> weekday, day |-> current_day,
             duty |-> IF contacts # << >> THEN DutyNames(contacts)
                      ELSE IF ContactFor(current_day) # << >>
                        THEN DutyNames(ContactFor(current_day))
                      ELSE <<Unassigned>>]>>

\* DutyBot._build_next_week_schedule_message: the period line and the rows
RECURSIVE ScheduleRows(_, _, _, _)
ScheduleRows(next_monday, oncall_schedule, weekends_alerts, weekday) ==
  IF weekday > 6 THEN << >>
  ELSE ScheduleRow(next_monday, oncall_schedule, weekends_alerts, weekday)
       \o ScheduleRows(next_monday, oncall_schedule, weekends_alerts,
                       weekday + 1)

BuildNextWeekScheduleMessage(next_monday, oncall_schedule, weekends_alerts) ==
  [kind |-> "weekly", root_id |-> "",
   period |-> <<next_monday, next_monday + 6>>,
   rows |-> ScheduleRows(next_monday, oncall_schedule, weekends_alerts, 0)]

\* a weekly loop that runs the procedure whatever ended its wait
weekly_notify_after_stop(inp) ==
  /\ weekly = "waiting"
  /\ sent' = <<BuildNextWeekScheduleMessage(NextWeekMonday(inp.today),
                  inp.oncall_schedule, inp.weekends_alerts)>>
  /\ NoResponse
  /\ NoLog
  /\ UNCHANGED <<start_task, weekly, daily, budget, weekly_input, daily_input, duty_group, stop_event, ack_event,
                 session, session_task, thread_poll_task, runs, pollers>>

\* _weekly_schedule_loop: the wait times out; _notify_next_week_schedule
\* builds the message and send_message returns; back to the wait
weekly_notify(inp) ==
  /\ weekly = "waiting"
  /\ ~stop_event
  /\ sent' = <<BuildNextWeekScheduleMessage(NextWeekMonday(inp.today),
                  inp.oncall_schedule, inp.weekends_alerts)>>
  /\ NoResponse
  /\ NoLog
  /\ UNCHANGED <<start_task, weekly, daily, budget, weekly_input, daily_input, duty_group, stop_event, ack_event,
                 session, session_task, thread_poll_task, runs, pollers>>

\* the same, but send_message raises: the exception leaves
\* _notify_next_week_schedule and the loop
weekly_failed(inp) ==
  /\ weekly = "waiting"
  /\ ~stop_event
  /\ sent' = <<BuildNextWeekScheduleMessage(NextWeekMonday(inp.today),
                  inp.oncall_schedule, inp.weekends_alerts)>>
  /\ weekly' = "crashed"
  /\ NoResponse
  /\ NoLog
  /\ UNCHANGED <<start_task, daily, budget, weekly_input, daily_input, duty_group, stop_event, ack_event,
                 session, session_task, thread_poll_task, runs, pollers>>

(***************************************************************************)
(* _sync_duty_group                                                        *)
(***************************************************************************)
\* a call of a Chat Gateway method that takes or returns user ids
GroupCall(kind, user_ids) ==
  [kind |-> kind, root_id |-> "", mentions |-> << >>, cmd |-> "",
   user_ids |-> user_ids]

\* usernames: the handles of the contacts and the bot's
SyncUsernames(contacts) ==
  {contacts[i].ldap : i \in 1 .. Len(contacts)} \cup {BOT_USERNAME}

\* desired_user_ids: the ids of the usernames that resolve
DesiredUserIds(contacts) ==
  {duty_group.ids[u] : u \in SyncUsernames(contacts)} \ {""}

\* users_to_add (the code sorts it; the order is not modelled)
UsersToAdd(current, desired) == desired \ current

\* a reconciliation that never removes
UsersToRemoveNone(current, desired) == {}

\* users_to_remove
UsersToRemove(current, desired) == current \ desired

\* the calls of the lookup loop, one per username
LookupCalls(contacts) ==
  [i \in 1 .. Cardinality(SyncUsernames(contacts)) |->
     GatewayCall("get_user_by_username")]

\* the remove and the add call; neither is made with an empty list
ChangeCalls(to_remove, to_add, failed) ==
  (IF to_remove # {} THEN <<GroupCall("remove_group_members", to_remove)>>
   ELSE << >>)
  \o (IF to_add # {} /\ ~(failed = "remove" /\ to_remove # {})
        THEN <<GroupCall("add_group_members", to_add)>>
      ELSE << >>)

\* a reconciliation that goes on without a group id
SyncDisabledNever == FALSE

\* group_id is empty: the reconciliation is disabled
SyncDisabled == Strip(duty_group.admin_group_id) = << >>

\* the calls of one _sync_duty_group; failed names the change call of the
\* Chat Gateway that raises, "none" if neither does
SyncCalls(contacts, failed) ==
  LET desired == DesiredUserIds(contacts)
      current == duty_group.members
      to_add == UsersToAdd(current, desired)
      to_remove == UsersToRemove(current, desired)
  IN IF SyncDisabled THEN << >>
     ELSE IF desired = {} THEN LookupCalls(contacts)
     ELSE IF ~duty_group.readable
       THEN LookupCalls(contacts) \o <<GatewayCall("get_group_member_ids")>>
     ELSE LookupCalls(contacts)
          \o <<GatewayCall("get_group_member_ids")>>
          \o ChangeCalls(to_remove, to_add, failed)

\* the members of the group after one _sync_duty_group
SyncMembers(contacts, failed) ==
  LET desired == DesiredUserIds(contacts)
      current == duty_group.members
      to_add == UsersToAdd(current, desired)
      to_remove == UsersToRemove(current, desired)
      remove_raises == failed = "remove" /\ to_remove # {}
      add_raises == failed = "add" /\ to_add # {}
      removed == IF remove_raises THEN current ELSE current \ to_remove
      added == IF remove_raises \/ add_raises THEN removed
               ELSE removed \cup to_add
  IN IF SyncDisabled \/ desired = {} \/ ~duty_group.readable
       THEN current
       ELSE added

\* DutyBot._sync_duty_group
sync_duty_group(contacts, failed) ==
  /\ sent' = SyncCalls(contacts, failed)
  /\ duty_group' = [duty_group EXCEPT !.members = SyncMembers(contacts, failed)]
  /\ NoResponse
  /\ NoLog
  /\ UNCHANGED <<stop_event, ack_event, session, session_task,
                 thread_poll_task, runs, pollers, daily, weekly,
                 start_task, budget, weekly_input, daily_input>>

(***************************************************************************)
(* _load_oncall_contacts and _map_oncall_ldaps_to_contacts                 *)
(***************************************************************************)
\* str.split("@", maxsplit=1)[0]
RECURSIVE BeforeAt(_)
BeforeAt(str) ==
  IF str = << >> \/ str[1] = "@" THEN << >>
  ELSE <<str[1]>> \o BeforeAt(Tail(str))

\* contact_tokens: the lowered handle, its part before "@" if it has one,
\* and the lowered on-call identifier if there is one
ContactTokens(contact) ==
  {Lower(contact.ldap)}
  \cup (IF \E i \in 1 .. Len(contact.ldap) : contact.ldap[i] = "@"
          THEN {Lower(BeforeAt(contact.ldap))} ELSE {})
  \cup (IF contact.ldap_oncall # << >>
          THEN {Lower(contact.ldap_oncall)} ELSE {})

\* a match of the identifier as it came, neither stripped nor lowered
MatchedExact(oncall_ldap) ==
  SelectSeq(ContactDirectory, LAMBDA c : oncall_ldap \in ContactTokens(c))

\* matched: the contacts of the directory one identifier matches, in
\* directory order; a blank identifier matches none
Matched(oncall_ldap) ==
  LET normalized == Lower(Strip(oncall_ldap))
  IN IF normalized = << >> THEN << >>
     ELSE SelectSeq(ContactDirectory,
                    LAMBDA c : normalized \in ContactTokens(c))

\* the inner loop: the matched contacts not yet seen are appended
RECURSIVE AppendUnseen(_, _)
AppendUnseen(contacts, matched) ==
  IF matched = << >> THEN contacts
  ELSE IF \E i \in 1 .. Len(contacts) : contacts[i].key = matched[1].key
    THEN AppendUnseen(contacts, Tail(matched))
  ELSE AppendUnseen(Append(contacts, matched[1]), Tail(matched))

\* the outer loop, with the contacts collected so far
RECURSIVE MapFrom(_, _)
MapFrom(contacts, ldaps) ==
  IF ldaps = << >> THEN contacts
  ELSE MapFrom(AppendUnseen(contacts, Matched(ldaps[1])), Tail(ldaps))

\* DutyBot._map_oncall_ldaps_to_contacts
map_oncall_ldaps_to_contacts(ldaps) == MapFrom(<< >>, ldaps)

\* DutyBot._load_oncall_contacts
load_oncall_contacts(oncall) ==
  IF ~oncall.client THEN << >>
  ELSE IF oncall.raises THEN << >>
  ELSE IF oncall.ldaps = << >> THEN << >>
  ELSE map_oncall_ldaps_to_contacts(oncall.ldaps)

(***************************************************************************)
(* _notify_today with the on-call query and the reconciliation             *)
(***************************************************************************)
\* the call of fetch_current_oncall, made only with an on-call client
OncallCalls(oncall) ==
  IF oncall.client THEN <<GatewayCall("oncall_query")>> ELSE << >>

\* a choice of contacts that prefers the static weekday contact
NotifyContactsStaticFirst(inp) ==
  IF ContactFor(inp.today) # << >> THEN ContactFor(inp.today)
  ELSE load_oncall_contacts(inp.oncall)

\* the contacts _notify_today notifies: the mapped on-call contacts, or
\* else the contact of today's weekday, or none
NotifyContacts(inp) ==
  IF load_oncall_contacts(inp.oncall) # << >>
    THEN load_oncall_contacts(inp.oncall)
    ELSE ContactFor(inp.today)

\* _daily_notification_loop: the wait times out and _notify_today runs with
\* the inputs inp, up to the await of send_message in
\* _send_initial_message; the gateway's change calls do not raise
notify_today_from(inp) ==
  LET contacts == NotifyContacts(inp) IN
  /\ daily = "waiting"
  /\ ~stop_event
  /\ NoResponse
  /\ UNCHANGED <<start_task, weekly, budget, weekly_input, daily_input,
                 stop_event, ack_event, session, thread_poll_task, pollers>>
  /\ IF NotifyTodaySkips(Weekday(inp.today), inp.weekends_alerts)
       THEN /\ NoSend
            /\ logged' = "skip_weekend"
            /\ UNCHANGED <<duty_group, session_task, runs, daily>>
     ELSE IF contacts = << >>
       THEN /\ sent' = OncallCalls(inp.oncall)
            /\ logged' = "no_contact"
            /\ UNCHANGED <<duty_group, session_task, runs, daily>>
     ELSE /\ NextRun # 0
          /\ NoLog
          /\ sent' = OncallCalls(inp.oncall)
                     \o SyncCalls(contacts, "none")
                     \o <<Message("initial", "", Mentions(contacts), "")>>
          /\ duty_group' =
               [duty_group EXCEPT !.members = SyncMembers(contacts, "none")]
          /\ daily' = "running"
          /\ session_task' = DailyTask
          /\ runs' = [runs EXCEPT ![NextRun] =
               [NoRun EXCEPT !.pc = "initial", !.task = DailyTask,
                             !.contacts = contacts]]

(***************************************************************************)
(* start and stop                                                          *)
(***************************************************************************)
\* a stop that flips the stop event instead of setting it
stop_toggles ==
  /\ stop_event' = ~stop_event
  /\ NoSend
  /\ NoResponse
  /\ NoLog
  /\ UNCHANGED <<ack_event, session, session_task, thread_poll_task, runs,
                 pollers, daily, weekly, start_task, budget, weekly_input, daily_input, duty_group>>

\* DutyBot.stop
stop ==
  /\ stop_event' = TRUE
  /\ NoSend
  /\ NoResponse
  /\ NoLog
  /\ UNCHANGED <<ack_event, session, session_task, thread_poll_task, runs,
                 pollers, daily, weekly, start_task, budget, weekly_input, daily_input, duty_group>>

\* _daily_notification_loop: the wait returns because the stop event is set;
\* break
daily_stopped ==
  /\ daily = "waiting"
  /\ stop_event
  /\ daily' = "stopped"
  /\ NoSend
  /\ NoResponse
  /\ NoLog
  /\ UNCHANGED <<start_task, weekly, budget, weekly_input, daily_input, duty_group, stop_event, ack_event, session,
                 session_task, thread_poll_task, runs, pollers>>

\* _weekly_schedule_loop: the wait returns because the stop event is set;
\* break
weekly_stopped ==
  /\ weekly = "waiting"
  /\ stop_event
  /\ weekly' = "stopped"
  /\ NoSend
  /\ NoResponse
  /\ NoLog
  /\ UNCHANGED <<start_task, daily, budget, weekly_input, daily_input, duty_group, stop_event, ack_event, session,
                 session_task, thread_poll_task, runs, pollers>>

\* CancelledError is raised in the daily task at the await run r is
\* suspended in.  In the finally block it ends wait_for, which cancels the
\* awaited poller, and leaves the block before its last statements; anywhere
\* else it enters the finally block.
CancelDailyRun(r) ==
  IF runs[r].pc = "join"
    THEN /\ pollers' = [pollers EXCEPT ![runs[r].join] = NoPoller]
         /\ runs' = [runs EXCEPT ![r] = [NoRun EXCEPT !.pc = "done"]]
         /\ daily' = "cancelled"
         /\ UNCHANGED <<session, thread_poll_task, session_task>>
    ELSE /\ session' = NoSession
         /\ pollers' = Stale(pollers)
         /\ UNCHANGED thread_poll_task
         /\ IF thread_poll_task # 0
              THEN /\ runs' = [runs EXCEPT ![r] =
                        [@ EXCEPT !.pc = "join", !.join = thread_poll_task,
                                  !.exc = TRUE, !.contacts = << >>]]
                   /\ daily' = "cancelling"
                   /\ UNCHANGED session_task
              ELSE /\ runs' = [runs EXCEPT ![r] = [NoRun EXCEPT !.pc = "done"]]
                   /\ daily' = "cancelled"
                   /\ session_task' =
                        IF session_task = DailyTask THEN NoTask
                        ELSE session_task

\* start resumes from the wait on the stop event, cancels the daily and the
\* weekly task and awaits the daily task.  A task that has ended ignores
\* cancel(); the cancelled task is resumed with CancelledError before any
\* other step of it.
start_cancel ==
  /\ start_task = "waiting"
  /\ stop_event
  /\ start_task' = "await_daily"
  /\ weekly' = IF weekly = "waiting" THEN "cancelled" ELSE weekly
  /\ IF daily = "waiting"
       THEN /\ daily' = "cancelled"
            /\ UNCHANGED <<session, session_task, thread_poll_task, runs,
                           pollers>>
     ELSE IF daily = "running"
       THEN \E r \in RunIds :
              /\ InProgress(r)
              /\ runs[r].task = DailyTask
              /\ CancelDailyRun(r)
     ELSE UNCHANGED <<daily, session, session_task, thread_poll_task, runs,
                      pollers>>
  /\ NoSend
  /\ NoResponse
  /\ NoLog
  /\ UNCHANGED <<budget, weekly_input, daily_input, duty_group, stop_event, ack_event>>

\* start: await daily_task returns, or raises what the task raised; only
\* CancelledError is suppressed
start_daily_awaited ==
  /\ start_task = "await_daily"
  /\ daily \in {"stopped", "cancelled", "crashed"}
  /\ start_task' = IF daily = "crashed" THEN "raised" ELSE "await_weekly"
  /\ NoSend
  /\ NoResponse
  /\ NoLog
  /\ UNCHANGED <<daily, weekly, budget, weekly_input, daily_input, duty_group, stop_event, ack_event, session,
                 session_task, thread_poll_task, runs, pollers>>

\* start: await weekly_task returns or raises; start returns
start_weekly_awaited ==
  /\ start_task = "await_weekly"
  /\ weekly \in {"stopped", "cancelled", "crashed"}
  /\ start_task' = IF weekly = "crashed" THEN "raised" ELSE "returned"
  /\ NoSend
  /\ NoResponse
  /\ NoLog
  /\ UNCHANGED <<daily, weekly, budget, weekly_input, daily_input, duty_group, stop_event, ack_event, session,
                 session_task, thread_poll_task, runs, pollers>>

(***************************************************************************)
(* Specification: the bot runs; DutyBot.stop is not called                 *)
(***************************************************************************)
\* the steps of the run_session workflows, of their pollers and of
\* handle_event
SessionNext ==
  \/ \E r \in RunIds : run_session_start(r)
  \/ \E r \in RunIds : initial_sent(r)
  \/ \E r \in RunIds : initial_failed(r)
  \/ \E r \in RunIds : reminder_signalled(r)
  \/ \E r \in RunIds : reminder_timeout(r)
  \/ \E r \in RunIds : send_reminder(r)
  \/ \E r \in RunIds : join_done(r)
  \/ \E r \in RunIds : join_timeout(r)
  \/ \E event \in PushBatch : handle_push(event)
  \/ \E p \in RunIds : poll_top(p)
  \/ \E p \in RunIds :
       \E event \in PollBatch(p) : poll_event(p, event)
  \/ \E p \in RunIds : poll_batch_end(p)

Next ==
  \/ \E key \in TriggerKeys : trigger_contact(key) /\ NoResponse /\ NoLog
  \/ \E contacts \in DailyContactLists : daily_notify(contacts)
  \/ SessionNext

Spec == Init /\ [][Next]_vars

(***************************************************************************)
(* Specification: the bot runs under start; stop may be called, gateway    *)
(* calls may fail                                                          *)
(***************************************************************************)
MaxStopRuns == 2

InitStop == InitWith(MaxStopRuns, WeeklyDefault, GroupDefault)

NextStop ==
  \/ \E key \in TriggerKeys : trigger_contact(key) /\ NoResponse /\ NoLog
  \/ \E weekday \in 0 .. 6 : \E weekends_alerts \in BOOLEAN :
       \E contacts \in DailyContactLists :
         notify_today(weekday, weekends_alerts, contacts)
  \/ SessionNext
  \/ \E r \in RunIds : reminder_failed(r)
  \/ weekly_notify(weekly_input)
  \/ weekly_failed(weekly_input)
  \/ stop
  \/ daily_stopped
  \/ weekly_stopped
  \/ start_cancel
  \/ start_daily_awaited
  \/ start_weekly_awaited

\* the event loop runs every task that is ready: start and the loops resume
\* once the stop event is set, and the bounded wait for the poller in the
\* finally block of _run_session ends
FairStop ==
  /\ WF_vars(start_cancel)
  /\ WF_vars(start_daily_awaited)
  /\ WF_vars(start_weekly_awaited)
  /\ WF_vars(daily_stopped)
  /\ WF_vars(weekly_stopped)
  /\ WF_vars(\E r \in RunIds : join_done(r) \/ join_timeout(r))

SpecStop == InitStop /\ [][NextStop]_vars /\ FairStop

(***************************************************************************)
(* Specification: the webhook router serves requests                       *)
(***************************************************************************)
MaxApiRuns == 2

\* the contacts the on-call path may resolve for trigger_oncall_duty
OncallContactLists == {<<Bob, Alice>>, << >>}

InitApi == InitWith(MaxApiRuns, WeeklyDefault, GroupDefault)

NextApi ==
  \/ \E path \in Paths : \E payload \in Payloads : http_trigger(path, payload)
  \/ \E path \in Paths : \E payload \in Payloads : \E failed \in BOOLEAN :
       http_ping(path, payload, failed)
  \/ \E path \in Paths : \E contacts \in OncallContactLists :
       http_duty_oncall(path, contacts)
  \/ \E path \in Paths : http_event(path)
  \/ \E path \in Paths : http_not_found(path)
  \/ \E contacts \in DailyContactLists : daily_notify(contacts)
  \/ SessionNext

SpecApi == InitApi /\ [][NextApi]_vars

(***************************************************************************)
(* Specification: runs of the publish-next-week-schedule procedure         *)
(***************************************************************************)
\* the days today is drawn from: two weeks
MaxToday == 13

\* schedules of the on-call range query: one or two contacts on any of the
\* Monday, the Wednesday and the Saturday of the first week and the Monday
\* and the Wednesday of the second week
OncallSchedules ==
  UNION { [days -> {<<Alice>>, <<Bob, Alice>>}] :
            days \in SUBSET {7, 9, 12, 14, 16} }

WeeklyInputs ==
  { WeeklyInput(today, weekends_alerts, oncall_schedule) :
      today \in 0 .. MaxToday, weekends_alerts \in BOOLEAN,
      oncall_schedule \in OncallSchedules }

InitWeekly == \E inp \in WeeklyInputs : InitWith(MaxRuns, inp, GroupDefault)

NextWeekly ==
  \/ weekly_notify(weekly_input)
  \/ weekly_failed(weekly_input)

SpecWeekly == InitWeekly /\ [][NextWeekly]_vars

(***************************************************************************)
(* Specification: the bot runs and is also handed payloads of other        *)
(* threads and posts of its own; the fetch of the thread may fail          *)
(***************************************************************************)
MaxEventRuns == 2

InitEvents == InitWith(MaxEventRuns, WeeklyDefault, GroupDefault)

\* the foreign payloads the webhook router may push now; without a pending
\* session one payload stands for all
ForeignPushBatch ==
  IF session # NoSession /\ ~session.acknowledged
    THEN ForeignPushEvents(session.thread_id)
         \cup BotPushEvents(session.thread_id)
    ELSE {}

\* the posts of the bot in the batch poller p iterates over
BotPollBatch(p) ==
  IF PollThread(p) = "zz" THEN {} ELSE BotPollEvents(PollThread(p))

\* the payloads pushed while no session is pending
LatePushBatch ==
  IF session # NoSession /\ ~session.acknowledged
    THEN {}
    ELSE LatePushEvents(IF session # NoSession THEN session.thread_id
                        ELSE MessageIds[1])

\* the payloads that are no messages, pushed while a session is pending
NonMessagePushBatch ==
  IF session # NoSession /\ ~session.acknowledged
    THEN NonMessageEvents(session.thread_id)
    ELSE {}

\* the messages with both keywords, pushed while a session is pending
StopTakePushBatch ==
  IF session # NoSession /\ ~session.acknowledged
    THEN StopTakeEvents(session.thread_id)
    ELSE {}

NextEvents ==
  \/ \E key \in TriggerKeys : trigger_contact(key) /\ NoResponse /\ NoLog
  \/ \E contacts \in DailyContactLists : daily_notify(contacts)
  \/ SessionNext
  \/ \E event \in ForeignPushBatch : handle_push(event)
  \/ \E p \in RunIds :
       \E event \in BotPollBatch(p) : poll_event(p, event)
  \/ \E p \in RunIds : fetch_failed(p)
  \/ \E event \in LatePushBatch : handle_push(event)
  \/ \E event \in NonMessagePushBatch : handle_push(event)
  \/ \E event \in StopTakePushBatch : handle_push(event)

SpecEvents == InitEvents /\ [][NextEvents]_vars

(***************************************************************************)
(* Specification: runs of the group reconciliation                         *)
(***************************************************************************)
\* the groups and user directories a run may find: any members among the
\* three known users and a stranger, any username unresolved, the member
\* list readable or not
GroupInputs ==
  { DutyGroup(members, ids, readable) :
      members \in SUBSET {"u-al", "u-bo", "u-bot", "u-x"},
      ids \in {f \in [DOMAIN UserIds -> {"", "u-al", "u-bo", "u-bot"}] :
                 \A u \in DOMAIN UserIds : f[u] \in {"", UserIds[u]}},
      readable \in BOOLEAN }

\* the contacts notify-today hands over
SyncContactLists == {<<Alice>>, <<Bob, Alice>>}

InitGroup ==
  \E group \in GroupInputs : InitWith(MaxRuns, WeeklyDefault, group)

NextGroup ==
  \E contacts \in SyncContactLists :
    \E failed \in {"none", "remove", "add"} :
      sync_duty_group(contacts, failed)

SpecGroup == InitGroup /\ [][NextGroup]_vars

(***************************************************************************)
(* Specification: runs of the group reconciliation, the setting            *)
(* loop.admin_group_id being a group id, empty or blank                    *)
(***************************************************************************)
GroupIdSettings == {<<"g">>, << >>, <<" ">>, <<" ", "g", " ">>}

InitGroupId ==
  \E group \in GroupInputs : \E admin_group_id \in GroupIdSettings :
    InitWith(MaxRuns, WeeklyDefault, WithGroupId(group, admin_group_id))

SpecGroupId == InitGroupId /\ [][NextGroup]_vars

(***************************************************************************)
(* Specification: the gateway answers every call and nothing is pushed;    *)
(* every contact of a session has written a take in its thread             *)
(***************************************************************************)
MaxPollRuns == 2

InitPoll == InitWith(MaxPollRuns, WeeklyDefault, GroupDefault)

\* the thread ids a session may have
ThreadIds == {MessageIds[i] : i \in 1 .. Len(MessageIds)}

\* events fetch_thread_events returns for thread th when both contacts
\* have answered: the root post and one take of each
TakeEvents(th) == {RootPost(th), AliceTake(th), BobTake("e2", th)}

\* the batch poller p iterates over
TakeBatch(p) ==
  IF PollThread(p) = "zz" THEN {AliceTake("zz")} ELSE TakeEvents(PollThread(p))

\* the for loop of poller p hands event over to handle_event
poll_delivers(p, event) ==
  /\ PollDelivers(p, event)
  /\ event \in TakeBatch(p)
  /\ poll_event(p, event)

NextPoll ==
  \/ \E key \in TriggerKeys : trigger_contact(key) /\ NoResponse /\ NoLog
  \/ \E contacts \in DailyContactLists : daily_notify(contacts)
  \/ \E r \in RunIds : run_session_start(r)
  \/ \E r \in RunIds : initial_sent(r)
  \/ \E r \in RunIds : reminder_signalled(r)
  \/ \E r \in RunIds : reminder_timeout(r)
  \/ \E r \in RunIds : send_reminder(r)
  \/ \E r \in RunIds : join_done(r)
  \/ \E r \in RunIds : join_timeout(r)
  \/ \E p \in RunIds : poll_top(p)
  \/ \E p \in RunIds : \E event \in TakeBatch(p) : poll_event(p, event)
  \/ \E p \in RunIds : poll_batch_end(p)

\* the event loop runs every task that is ready and the gateway answers:
\* a started run sends its initial message, a signalled or timed-out
\* reminder wait resumes, the bounded wait for the poller in the finally
\* block ends, and a poller goes from its wait to the next fetch and from a
\* batch to its end
FairTasks ==
  /\ \A r \in RunIds :
       /\ WF_vars(run_session_start(r))
       /\ WF_vars(initial_sent(r))
       /\ WF_vars(reminder_signalled(r))
       /\ WF_vars(send_reminder(r))
       /\ WF_vars(join_done(r) \/ join_timeout(r))
  /\ \A p \in RunIds :
       /\ WF_vars(poll_top(p))
       /\ WF_vars(poll_batch_end(p))

\* the for loop visits every event of every batch: an event whose id is
\* not processed, in the batches a poller fetches again and again, is
\* handed over in one of them
FairDelivery ==
  \A th \in ThreadIds : \A event \in TakeEvents(th) :
    SF_vars(\E p \in RunIds : poll_delivers(p, event))

SpecPoll == InitPoll /\ [][NextPoll]_vars /\ FairTasks /\ FairDelivery

(***************************************************************************)
(* Specification: the bot runs as in Spec; the tasks are scheduled fairly  *)
(* and the timer of every reminder wait expires                            *)
(***************************************************************************)
MaxRemindRuns == 2

InitRemind == InitWith(MaxRemindRuns, WeeklyDefault, GroupDefault)

\* a reminder wait that is not signalled ends when its interval elapses
FairTimer == \A r \in RunIds : WF_vars(reminder_timeout(r))

SpecRemind == InitRemind /\ [][Next]_vars /\ FairTasks /\ FairTimer

(***************************************************************************)
(* Specification: notify-today with every outcome of the on-call query     *)
(***************************************************************************)
MaxOncallLdaps == 2

\* identifiers the on-call source may return: handles, in other case and
\* with blanks, on-call identifiers, the part of a handle before "@", an
\* identifier of nobody, and blank ones
OncallIds ==
  { AliceLdap, <<"A","L">>, <<" ","b","o"," ">>, <<"r","o">>, <<"c">>,
    CarolLdap, <<"z">>, << >>, <<" ">> }

\* the lists of identifiers fetch_current_oncall may return
OncallLdapLists ==
  UNION {[1 .. n -> OncallIds] : n \in 0 .. MaxOncallLdaps}

\* the outcomes of the on-call query
OncallResults ==
  {OncallResult(FALSE, FALSE, << >>), OncallResult(TRUE, TRUE, << >>)}
  \cup {OncallResult(TRUE, FALSE, ldaps) : ldaps \in OncallLdapLists}

DailyInputs ==
  { DailyInput(today, weekends_alerts, oncall) :
      today \in 0 .. 6, weekends_alerts \in BOOLEAN,
      oncall \in OncallResults }

\* the user directory of the Chat Gateway with every contact in it
DirectoryIds == UserIds @@ (CarolLdap :> "u-ca")

\* the groups notify-today may find: in sync with Bob and Alice, or
\* holding a stranger only; with and without a configured group id
DailyGroups ==
  { WithGroupId(DutyGroup(members, DirectoryIds, TRUE), admin_group_id) :
      members \in {{"u-al", "u-bo", "u-bot"}, {"u-x"}},
      admin_group_id \in {<<"g">>, << >>} }

InitDaily ==
  \E dinp \in DailyInputs : \E group \in DailyGroups :
    InitWithDaily(MaxRuns, WeeklyDefault, group, dinp)

NextDaily ==
  \/ notify_today_from(daily_input)
  \/ \E r \in RunIds : initial_sent(r)

SpecDaily == InitDaily /\ [][NextDaily]_vars

(***************************************************************************)
(* Properties                                                              *)
(***************************************************************************)
\* the session in self._session still waits for an acknowledgement
Pending == session # NoSession /\ ~session.acknowledged

\* handle_event is called with event, by the push path (posts e1, e3, e4)
\* or by a poller (posts e1, e2)
Delivered(event) ==
  \/ event.id \in {"e1", "e3", "e4"} /\ handle_push(event)
  \/ /\ event.id \in {"e1", "e2"}
     /\ \E p \in RunIds : PollDelivers(p, event) /\ poll_event(p, event)

\* the one confirmation reply in thread th
OneConfirmation(th) ==
  /\ Len(sent') = 1
  /\ sent'[1].kind = "ack"
  /\ sent'[1].root_id = th

\* the handles of the contacts of sess
Handles(sess) == {sess.contacts[i].ldap : i \in 1 .. Len(sess.contacts)}

\* C1: the acknowledged flag of a session is true exactly when every contact
\* handle of the session is in its acknowledged handles (a stop puts all of
\* them there): never true with a handle missing, never false with all
\* present.
C1_AcknowledgedIffAllHandles ==
  session # NoSession =>
    (session.acknowledged <=> Handles(session) \subseteq session.acknowledged_ldaps)

\* a two-contact session acknowledged by the take of its second contact
C1_Witness ==
  /\ session # NoSession
  /\ Len(session.contacts) = 2
  /\ session.acknowledged
  /\ sent # << >> /\ sent[1].kind = "ack" /\ sent[1].cmd = "take"

\* C2: a post the session has already processed, delivered again by the
\* push path, sends no confirmation and changes nothing (post e1, Alice's
\* take, first delivered by a poller and then pushed).
C2_SecondDeliveryIsDropped ==
  [][ ( /\ session # NoSession
        /\ "e1" \in session.processed_post_ids
        /\ handle_push(AliceTake(session.thread_id)) )
      => (sent' = << >> /\ session' = session) ]_vars

\* C3: at most one run_session workflow is in progress at any instant.
C3_AtMostOneWorkflow ==
  Cardinality({r \in RunIds : InProgress(r)}) <= 1

\* C4: trigger_contact for a known key, called while a workflow is in
\* progress, starts nothing, sends nothing and leaves the session and the
\* session-task slot unchanged.
C4_TriggerRejectedWhileInProgress ==
  [][ ((\E r \in RunIds : InProgress(r)) /\ trigger_contact("alice"))
      => (sent' = << >> /\ UNCHANGED <<runs, session, session_task>>) ]_vars

\* C5: a stop command of a user who is not the bot, delivered while contacts
\* are pending, puts every contact handle into the acknowledged handles,
\* sets the flag and the signal in the same step and sends exactly one
\* confirmation reply in the session thread.
C5_StopAcknowledgesAll ==
  [][ \A id \in {"e2", "e3"} :
        (Pending /\ Delivered(RandomStop(id, session.thread_id)))
        => /\ Handles(session) \subseteq session'.acknowledged_ldaps
           /\ session'.acknowledged
           /\ ack_event'
           /\ OneConfirmation(session.thread_id) ]_vars

\* a two-contact session acknowledged by a stop
C5_Witness ==
  /\ session # NoSession
  /\ Len(session.contacts) = 2
  /\ session.acknowledged /\ ack_event
  /\ session.acknowledged_ldaps = {AliceLdap, BobLdap}
  /\ sent # << >> /\ sent[1].kind = "ack" /\ sent[1].cmd = "stop"

\* C6: a take command of a user who is no contact of the session and who
\* mentions the bot (in the text, in the mentions list or in props
\* mention_keys) sends exactly one confirmation reply in the session thread
\* and leaves the acknowledged handles and the flag unchanged.
C6_OutsiderTakeWithMention ==
  [][ \A e \in RandomTakesWithMention(CurrentThread) :
        (Pending /\ Delivered(e))
        => /\ OneConfirmation(session.thread_id)
           /\ session'.acknowledged_ldaps = session.acknowledged_ldaps
           /\ session'.acknowledged = session.acknowledged ]_vars

\* a take was just confirmed in a pending session no contact of which has
\* taken the duty: the take of an outsider
C6_Witness ==
  /\ Pending
  /\ session.acknowledged_ldaps = {}
  /\ sent # << >> /\ sent[1].kind = "ack" /\ sent[1].cmd = "take"

\* C7: a take command of a user who is no contact of the session and who
\* does not mention the bot is a no-op: no reply, and the acknowledged
\* handles, the flag and the signal are unchanged.
C7_OutsiderTakeWithoutMention ==
  [][ Delivered(RandomTake(CurrentThread))
      => (sent' = << >> /\ UNCHANGED <<session, ack_event>>) ]_vars

\* a partly acknowledged session after a step that sent nothing
C7_Witness ==
  /\ Pending
  /\ session.acknowledged_ldaps # {}
  /\ sent = << >>

\* the handles of contacts that are not in acked, in the order of contacts
RECURSIVE PendingHandles(_, _)
PendingHandles(contacts, acked) ==
  IF contacts = << >> THEN << >>
  ELSE (IF Head(contacts).ldap \in acked THEN << >>
        ELSE <<Head(contacts).ldap>>)
       \o PendingHandles(Tail(contacts), acked)

\* C8: every reminder is sent in the thread of the session and mentions
\* exactly the contacts whose handle is not among the acknowledged handles
\* when it is composed, in the order of the session contacts; no reminder
\* is sent when there is no such contact.
C8_ReminderMentionsPending ==
  \A i \in 1 .. Len(sent) :
    sent[i].kind = "reminder" =>
      /\ session # NoSession
      /\ sent[i].root_id = session.thread_id
      /\ sent[i].mentions =
           PendingHandles(session.contacts, session.acknowledged_ldaps)
      /\ sent[i].mentions # << >>

\* a reminder that mentions Bob alone after Alice has taken the duty
C8_Witness ==
  /\ session # NoSession
  /\ session.acknowledged_ldaps = {AliceLdap}
  /\ sent # << >> /\ sent[1].kind = "reminder"
  /\ sent[1].mentions = <<BobLdap>>

\* C9: no step sends a reminder in the thread of a session that is
\* acknowledged, be it acknowledged before the step or by it; this holds
\* when the reminder interval has run out and the acknowledging event is
\* handled before the reminder loop resumes.
C9_NoReminderOnceAcknowledged ==
  [][ \A i \in 1 .. Len(sent') :
        sent'[i].kind = "reminder" =>
          /\ ~(session # NoSession /\ session.acknowledged
                 /\ sent'[i].root_id = session.thread_id)
          /\ ~(session' # NoSession /\ session'.acknowledged
                 /\ sent'[i].root_id = session'.thread_id) ]_vars

\* the reminder interval has run out and the session was acknowledged
\* before the reminder loop resumed
C9_Witness ==
  /\ session # NoSession
  /\ session.acknowledged
  /\ \E r \in RunIds : runs[r].pc = "timedout"

\* C10: a take command of a session contact, delivered while the session is
\* unacknowledged, sends exactly one confirmation reply in the session
\* thread and records the contact; the session is acknowledged by it exactly
\* when no other contact is missing (of two contacts the first take leaves
\* the session unacknowledged, the second acknowledges it).
C10_ContactTakeConfirmedOnce ==
  [][ \A e \in {AliceTake(CurrentThread), BobTake("e2", CurrentThread),
                BobTake("e4", CurrentThread)} :
        (Pending /\ e.user.ldap \in Handles(session) /\ Delivered(e))
        => /\ OneConfirmation(session.thread_id)
           /\ session'.acknowledged_ldaps =
                session.acknowledged_ldaps \cup {e.user.ldap}
           /\ session'.acknowledged
                <=> Handles(session) \subseteq
                      (session.acknowledged_ldaps \cup {e.user.ldap}) ]_vars

\* of two contacts one has taken the duty, a take was just confirmed and the
\* session is still unacknowledged
C10_Witness ==
  /\ Pending
  /\ Len(session.contacts) = 2
  /\ session.acknowledged_ldaps = {BobLdap}
  /\ sent # << >> /\ sent[1].kind = "ack" /\ sent[1].cmd = "take"

\* C11: whenever a run_session workflow ends, the active-session slot is
\* empty and the session-task slot does not refer to that run, so that
\* trigger_contact for a known key is accepted.
C11_RunEndClearsSlots ==
  [][ \A r \in RunIds :
        (InProgress(r) /\ runs'[r].pc = "done")
        => /\ session' = NoSession
           /\ session_task' # runs[r].task
           /\ trigger_contact_returns("alice")' ]_vars

\* C12: a transport error of the Chat Gateway in the daily cycle (here the
\* send of the initial message) does not leave the daily loop: when the
\* failed run_session has ended, the loop waits for its next occurrence.
C12_TransportErrorContained ==
  [][ \A r \in RunIds :
        (runs[r].task = DailyTask /\ initial_failed(r) /\ runs'[r].pc = "done")
        => daily' = "waiting" ]_vars


\* a reminder message is among the calls of the step
ReminderSent == \E i \in 1 .. Len(sent') : sent'[i].kind = "reminder"

\* C13: once stop has been called and start has resumed from its wait on the
\* stop event, no run_session workflow, of the daily loop or of
\* trigger_contact, is in its reminder wait or about to send a reminder, and
\* no step sends a reminder message.
C13_StopEndsReminderWait ==
  [][ (stop_event' /\ start_task' # "waiting")
      => /\ \A r \in RunIds : runs'[r].pc \notin {"wait", "timedout"}
         /\ ~ReminderSent ]_vars


\* C14: after stop has been called, start eventually returns, and by then
\* the daily loop and the weekly loop have both ended.
C14_StartReturnsAfterStop ==
  stop_event ~> /\ start_task = "returned"
                /\ daily \in {"stopped", "cancelled", "crashed"}
                /\ weekly \in {"stopped", "cancelled", "crashed"}


\* what DutyBot keeps between calls, the stop event aside
EngineState ==
  <<ack_event, session, session_task, thread_poll_task, runs, pollers, daily,
    weekly, start_task>>

\* C15: stop can be called in every state and never raises; a call sets the
\* stop event and changes nothing else, so a call made when the stop event
\* is already set leaves the engine in the state the first call left it in.
C15_StopIdempotent ==
  /\ [](ENABLED stop)
  /\ [][ stop => /\ stop_event'
                 /\ UNCHANGED EngineState
                 /\ (stop_event => UNCHANGED <<stop_event, EngineState>>) ]_vars

\* stop has been called while a session is pending and start has not resumed
\* yet: a state in which a second call can follow the first
C15_Witness ==
  /\ stop_event
  /\ Pending
  /\ start_task = "waiting"


\* C17: when notify-today runs on a Saturday or a Sunday with weekend alerts
\* disabled, the step makes no gateway call (no message, no on-call query,
\* no group read or change), starts no run_session and leaves the session
\* slots and the daily loop as they were.
C17_WeekendSkipDoesNothing ==
  [][ \A weekday \in {5, 6} : \A contacts \in DailyContactLists :
        notify_today(weekday, FALSE, contacts)
        => /\ sent' = << >>
           /\ UNCHANGED <<runs, session, session_task, thread_poll_task,
                          pollers, daily>> ]_vars

\* notify-today has just skipped a weekend: nothing was sent and no
\* run_session has started
C17_Witness ==
  /\ logged = "skip_weekend"
  /\ sent = << >>
  /\ \A r \in RunIds : runs[r].pc = "unused"


\* C16: ping_contact for a known key makes exactly one gateway call, a
\* top-level message with the initial-message text that mentions that
\* contact alone; it returns True (the router answers 200 "Ping sent")
\* whether or not a session is in progress, and it leaves the session slot,
\* the session-task slot, the poller slot, the acknowledgement signal and
\* every run and session as they were.
C16_PingSendsOneMessage ==
  [][ \A path \in Paths : \A failed \in BOOLEAN :
        http_ping(path, [contact |-> "alice"], failed)
        => /\ sent' = <<Message("initial", "", <<AliceLdap>>, "")>>
           /\ ping_contact_returns("alice")
           /\ ~failed => resp' = Response(200, "Ping sent")
           /\ UNCHANGED <<session, session_task, thread_poll_task, ack_event,
                          runs, pollers>> ]_vars

\* a ping has been answered with success while a session with two contacts
\* is pending
C16_Witness ==
  /\ resp = Response(200, "Ping sent")
  /\ Pending
  /\ Len(session.contacts) = 2
  /\ sent = <<Message("initial", "", <<AliceLdap>>, "")>>


\* C18: trigger_contact and ping_contact called with a key that is not in
\* the contact directory return False (the router answers 409 and 404),
\* make no gateway call, start no run_session and leave the session slot,
\* the session-task slot and everything else of the engine as it was.
C18_UnknownKeyIsNoOp ==
  [][ \A path \in Paths :
        ( \/ http_trigger(path, [contact |-> "nobody"])
          \/ \E failed \in BOOLEAN :
               http_ping(path, [contact |-> "nobody"], failed) )
        => /\ ~trigger_contact_returns("nobody")
           /\ ~ping_contact_returns("nobody")
           /\ resp' = IF NormalizedPath(path) = TriggerPath
                        THEN Response(409,
                          "Session already in progress or contact unknown")
                        ELSE Response(404, "Contact unknown")
           /\ sent' = << >>
           /\ UNCHANGED <<session, session_task, thread_poll_task, ack_event,
                          runs, pollers, daily>> ]_vars

\* a trigger has been refused although no session task exists and no
\* run_session has ever started: the key was unknown
C18_Witness ==
  /\ resp = Response(409, "Session already in progress or contact unknown")
  /\ session_task = NoTask
  /\ \A r \in RunIds : runs[r].pc = "unused"
  /\ sent = << >>


\* the step creates the task of a new run_session
Scheduled ==
  \E r \in RunIds : runs[r].pc = "unused" /\ runs'[r].pc = "created"

MondayAfter(today) == CHOOSE m \in today + 1 .. today + 7 : m % 7 = 0

\* the weekdays that get a row
IncludedWeekdays(weekends_alerts) ==
  IF weekends_alerts THEN 0 .. 6 ELSE 0 .. 4

\* what the row of day shows: the contacts of the on-call range schedule if
\* it has any for the day, else the static weekday contact, else the
\* unassigned marker
ExpectedDuty(oncall_schedule, day) ==
  IF day \in DOMAIN oncall_schedule /\ oncall_schedule[day] # << >>
    THEN [i \in 1 .. Len(oncall_schedule[day]) |->
            oncall_schedule[day][i].ldap]
  ELSE IF day % 7 \in DOMAIN WeekdayToContact
    THEN <<WeekdayToContact[day % 7].ldap>>
  ELSE <<Unassigned>>

\* C20: one run of the publish-next-week-schedule procedure makes exactly
\* one gateway call, a top-level message for the week from next Monday to
\* next Sunday; the message has exactly one row per included weekday, in
\* order (Saturday and Sunday have none when weekend alerts are disabled),
\* and each row shows the on-call schedule's contacts for its day if there
\* are any, else the static weekday contact, else the unassigned marker.
C20_WeeklyScheduleMessage ==
  [][ weekly_notify(weekly_input)
        => LET inp == weekly_input
               monday == MondayAfter(inp.today)
               included == IncludedWeekdays(inp.weekends_alerts)
               rows == sent'[1].rows
           IN /\ Len(sent') = 1
              /\ sent'[1].kind = "weekly"
              /\ sent'[1].root_id = ""
              /\ sent'[1].period = <<monday, monday + 6>>
              /\ Len(rows) = Cardinality(included)
              /\ \A i \in 1 .. Len(rows) :
                   /\ rows[i].weekday = i - 1
                   /\ rows[i].weekday \in included
                   /\ rows[i].day = monday + i - 1
                   /\ rows[i].duty =
                        ExpectedDuty(inp.oncall_schedule, rows[i].day) ]_vars

\* a schedule message without weekend rows has been sent whose rows show
\* two on-call contacts, a static weekday contact and the unassigned marker
C20_Witness ==
  /\ Len(sent) = 1
  /\ sent[1].kind = "weekly"
  /\ Len(sent[1].rows) = 5
  /\ \E i, j, k \in 1 .. 5 :
       /\ Len(sent[1].rows[i].duty) = 2
       /\ sent[1].rows[j].duty = <<AliceLdap>>
       /\ sent[1].rows[j].day = 8
       /\ sent[1].rows[k].duty = <<Unassigned>>


\* the ids of the handles of contacts and of the bot
DesiredIds(contacts) ==
  {UserIds[contacts[i].ldap] : i \in 1 .. Len(contacts)}
    \cup {UserIds[BOT_USERNAME]}

\* the user ids the calls of the given kind in the step carry, one set per
\* call
CallsOf(kind) ==
  {i \in 1 .. Len(sent') : sent'[i].kind = kind}

\* C21: when every desired handle (the contacts and the bot) resolves to a
\* user id and the member list is readable, reconciliation makes at most one
\* remove call, with exactly the ids in current minus desired, and at most
\* one add call, with exactly the ids in desired minus current, and none
\* with an empty list; if neither call fails the member set afterwards is
\* the desired id set; when the two sets are equal already it calls neither.
C21_GroupReconciled ==
  [][ \A contacts \in SyncContactLists :
        \A failed \in {"none", "remove", "add"} :
          ( /\ sync_duty_group(contacts, failed)
            /\ \A u \in SyncUsernames(contacts) : duty_group.ids[u] # ""
            /\ duty_group.readable )
          => LET desired == DesiredIds(contacts)
                 current == duty_group.members
             IN /\ \A i \in CallsOf("remove_group_members") :
                     sent'[i].user_ids = current \ desired
                /\ \A i \in CallsOf("add_group_members") :
                     sent'[i].user_ids = desired \ current
                /\ Cardinality(CallsOf("remove_group_members"))
                     = IF current \ desired = {} THEN 0 ELSE 1
                /\ failed = "none"
                   => /\ Cardinality(CallsOf("add_group_members"))
                           = IF desired \ current = {} THEN 0 ELSE 1
                      /\ duty_group'.members = desired
                /\ current = desired
                   => /\ CallsOf("remove_group_members") = {}
                      /\ CallsOf("add_group_members") = {}
                      /\ UNCHANGED duty_group ]_vars

\* a reconciliation has removed the stranger and added a contact: the group
\* holds the two contacts and the bot after a remove and an add call
C21_Witness ==
  /\ duty_group.members = {"u-al", "u-bo", "u-bot"}
  /\ \E i, j \in 1 .. Len(sent) :
       /\ sent[i].kind = "remove_group_members"
       /\ sent[i].user_ids = {"u-x"}
       /\ sent[j].kind = "add_group_members"
       /\ sent[j].user_ids # {}


\* C22: the session slot is never empty while a poller task is still
\* running: a run_session that ends clears the slot only after the poller it
\* started has terminated.
C22_SessionClearedAfterPoller ==
  \A p \in RunIds : pollers[p].pc # "unused" => session # NoSession


\* the session slot refers to the same session before and after the step
SameSession ==
  /\ session # NoSession
  /\ session' # NoSession
  /\ session'.thread_id = session.thread_id

\* both contacts of the session are recorded, the flag and the signal are
\* set
BothAcknowledged ==
  /\ session'.acknowledged_ldaps = {AliceLdap, BobLdap}
  /\ session'.acknowledged
  /\ ack_event'

\* C23: in a pending session of two contacts whose takes are delivered by
\* different paths (Alice's by a poller, Bob's by push), the take that is
\* handled second finds the handle the first one recorded and completes the
\* session, whichever comes first; no delivery removes a recorded handle,
\* and no step leaves every contact recorded with the flag still false.
C23_ConcurrentTakesBothCount ==
  [][ /\ (Pending /\ Len(session.contacts) = 2)
         => /\ ( /\ AliceLdap \in session.acknowledged_ldaps
                 /\ "e1" \in session.processed_post_ids
                 /\ handle_push(BobTake("e4", session.thread_id)) )
               => BothAcknowledged
            /\ ( /\ BobLdap \in session.acknowledged_ldaps
                 /\ "e2" \notin session.processed_post_ids
                 /\ \E p \in RunIds :
                      /\ PollDelivers(p, AliceTake(session.thread_id))
                      /\ poll_event(p, AliceTake(session.thread_id)) )
               => BothAcknowledged
      /\ SameSession
         => /\ session.acknowledged_ldaps \subseteq session'.acknowledged_ldaps
            /\ Handles(session') \subseteq session'.acknowledged_ldaps
               => session'.acknowledged ]_vars

\* Alice's take was handled by a poller and Bob's, pushed and never polled,
\* has just completed the session
C23_Witness ==
  /\ session # NoSession
  /\ session.acknowledged
  /\ session.acknowledged_ldaps = {AliceLdap, BobLdap}
  /\ "e1" \in session.processed_post_ids
  /\ "e2" \notin session.processed_post_ids
  /\ ack_event
  /\ sent # << >> /\ sent[1].kind = "ack" /\ sent[1].cmd = "take"


\* C24: a message event whose root id is neither the thread id of the
\* session nor the event's own id causes no reply and changes neither the
\* acknowledged handles nor the flag nor the signal, even when it is a take
\* of a session contact or a stop command.
C24_OnlyThreadEventsAccepted ==
  [][ \A e \in ForeignPushEvents(CurrentThread) :
        ( /\ Pending
          /\ e.root_id # session.thread_id
          /\ e.root_id # e.id
          /\ handle_push(e) )
        => (sent' = << >> /\ UNCHANGED <<session, ack_event>>) ]_vars


\* C25: an event whose author has the bot's username or the bot's handle,
\* in any case of letters, pushed or delivered by a poller while a session
\* is pending, causes no reply and changes neither the acknowledged handles
\* nor the flag nor the signal, even when its text has the take keyword and
\* mentions the bot or has the stop keyword.
C25_BotAuthoredIgnored ==
  [][ Pending
      => /\ \A e \in BotPushEvents(CurrentThread) :
              handle_push(e)
              => (sent' = << >> /\ UNCHANGED <<session, ack_event>>)
         /\ \A e \in BotPollEvents(CurrentThread) :
              (\E p \in RunIds : PollDelivers(p, e) /\ poll_event(p, e))
              => /\ sent' = << >>
                 /\ session'.acknowledged_ldaps = session.acknowledged_ldaps
                 /\ session'.acknowledged = session.acknowledged
                 /\ UNCHANGED ack_event ]_vars

\* a poller has handed a post of the bot to handle_event in a session that
\* is still pending with no handle recorded
C25_Witness ==
  /\ Pending
  /\ "e9" \in session.processed_post_ids
  /\ session.acknowledged_ldaps = {}
  /\ ~ack_event
  /\ sent = << >>


\* C26: within one session a poller hands an event to handle_event only if
\* its id is not yet among the processed ids, and the id is among them once
\* the event is handed over; the processed ids of a session only grow and
\* hold the id of the initial message from the start.  So each id is handed
\* over at most once across the batches of every poller, and the root
\* message never is: an event whose id is processed changes nothing.
C26_EachIdHandedOnce ==
  [][ /\ \A p \in RunIds : \A e \in PollBatch(p) \cup BotPollBatch(p) :
           ( /\ pollers[p].pc = "iter"
             /\ ~pollers[p].stale
             /\ session # NoSession
             /\ e.id # ""
             /\ poll_event(p, e) )
           => IF e.id \in session.processed_post_ids
                THEN sent' = << >> /\ UNCHANGED <<session, ack_event>>
                ELSE /\ e.id # session.message_id
                     /\ session' # NoSession
                     /\ e.id \in session'.processed_post_ids
      /\ SameSession
           => session.processed_post_ids \subseteq session'.processed_post_ids
      /\ session' # NoSession
           => session'.message_id \in session'.processed_post_ids ]_vars

\* a poller is in a batch of a pending session whose posts "e1" and "e2"
\* were handed over before: the batch holds them and the root post again
C26_Witness ==
  /\ Pending
  /\ {session.message_id, "e1", "e2"} \subseteq session.processed_post_ids
  /\ \E p \in RunIds :
       /\ pollers[p].pc = "iter"
       /\ ~pollers[p].stale
       /\ {e.id : e \in PollBatch(p)} \subseteq session.processed_post_ids


\* C27: a failed fetch of the thread in a poller of a pending session
\* leaves the session, its acknowledged handles and the signal as they are
\* and sends nothing; the poller does not end but waits for the poll
\* interval, and from there it goes on to the next fetch.
C27_FetchFailureIsEmptyBatch ==
  [][ \A p \in RunIds :
        /\ (Pending /\ fetch_failed(p))
             => /\ UNCHANGED <<session, ack_event>>
                /\ sent' = << >>
                /\ pollers'[p] = PollerTop
        /\ (Pending /\ ~stop_event /\ poll_top(p))
             => pollers'[p].pc = "iter" ]_vars

\* the fetch of a poller has just failed in a pending session and the
\* poller waits for the poll interval
C27_Witness ==
  /\ logged = "fetch_failed"
  /\ Pending
  /\ \E p \in RunIds : pollers[p] = PollerTop


\* C28: with nothing pushed, a pending session in whose thread every
\* contact has written a take is eventually acknowledged by the deliveries
\* of the poller, and the run that waits for it completes with the session
\* slot cleared.
RunsComplete == \A r \in RunIds : runs[r].pc \in {"unused", "done"}

C28_AcknowledgedByPollingAlone ==
  \A th \in ThreadIds :
    /\ (Pending /\ session.thread_id = th)
         ~> (session.thread_id = th /\ session.acknowledged)
    /\ (Pending /\ session.thread_id = th)
         ~> (session = NoSession /\ RunsComplete)


\* what polling alone does achieve: a pending session is acknowledged
\* unless another run replaces it first, the session the engine then holds
\* is acknowledged, and every run completes with the session slot cleared
C28_UnlessReplaced ==
  /\ \A th \in ThreadIds :
       (Pending /\ session.thread_id = th)
         ~> \/ session.thread_id = th /\ session.acknowledged
            \/ session # NoSession /\ session.thread_id # th
  /\ Pending ~> (session # NoSession /\ session.acknowledged)
  /\ Pending ~> (session = NoSession /\ RunsComplete)


\* the calls of the step are one reminder in thread th that mentions the
\* contacts of the session who have not acknowledged
OneReminder(th) ==
  sent' = <<Message("reminder", th,
                    Mentions(contacts_pending_ack(session)), "")>>

\* the last step sent a reminder into thread th
RemindedIn(th) ==
  /\ Len(sent) = 1
  /\ sent[1].kind = "reminder"
  /\ sent[1].root_id = th

\* C29: when a reminder wait has expired without the signal and the
\* session exists, is not acknowledged and has a contact who has not
\* acknowledged, _send_reminder sends exactly one reminder, into the thread
\* of the session, and the run waits again; and as long as the session
\* exists unacknowledged a further reminder into its thread always follows.
C29_RemindersRecur ==
  /\ [][ \A r \in RunIds :
           ( /\ Pending
             /\ contacts_pending_ack(session) # << >>
             /\ runs[r].pc = "timedout"
             /\ send_reminder(r) )
           => /\ OneReminder(session.thread_id)
              /\ runs'[r].pc = "wait"
              /\ UNCHANGED session ]_vars
  /\ \A th \in ThreadIds :
       [](  (Pending /\ session.thread_id = th)
            => <>( \/ RemindedIn(th)
                   \/ ~(Pending /\ session.thread_id = th) ) )
  /\ \A th \in ThreadIds :
       []<>(Pending /\ session.thread_id = th) => []<>RemindedIn(th)

\* a reminder has just been sent into the thread of a pending session and
\* the run is in its next reminder wait
C29_Witness ==
  /\ Pending
  /\ ~stop_event
  /\ RemindedIn(session.thread_id)
  /\ \E r \in RunIds : runs[r].pc = "wait"


\* C30: while the slot holds the same session, no step removes a handle
\* from its acknowledged handles, no step resets its flag, and once the
\* flag is set the handles do not change any more: the flag goes from false
\* to true at most once.
C30_AcknowledgementMonotonic ==
  [][ SameSession
      => /\ session.acknowledged_ldaps \subseteq session'.acknowledged_ldaps
         /\ session.acknowledged => session'.acknowledged
         /\ session.acknowledged
              => session'.acknowledged_ldaps = session.acknowledged_ldaps ]_vars

\* a session of two contacts is acknowledged with both handles recorded
\* while a poller is still inside a batch and a run is still in its wait
C30_Witness ==
  /\ session # NoSession
  /\ session.acknowledged
  /\ session.acknowledged_ldaps = {AliceLdap, BobLdap}
  /\ \E p \in RunIds : pollers[p].pc = "iter"
  /\ \E r \in RunIds : runs[r].pc \in {"wait", "timedout"}


\* the calls of the step are none and nothing of the engine changes
NoEffect ==
  /\ sent' = << >>
  /\ UNCHANGED <<stop_event, ack_event, session, session_task,
                 thread_poll_task, runs, pollers, daily, weekly, start_task>>

\* C31: a take or a stop handed to handle_event while there is no session,
\* or after the session was acknowledged, sends no message and changes no
\* state; and an event that is no message does so in a pending session too.
C31_IgnoredWithoutPendingSession ==
  [][ /\ ~Pending
        => \A e \in LatePushBatch : handle_push(e) => NoEffect
      /\ Pending
        => \A e \in NonMessagePushBatch : handle_push(e) => NoEffect ]_vars

\* a session is acknowledged and still in the slot, the signal is set, and
\* the last step, a payload pushed after the acknowledgement among them,
\* sent nothing
C31_Witness ==
  /\ session # NoSession
  /\ session.acknowledged
  /\ ack_event
  /\ sent = << >>
  /\ \E r \in RunIds : runs[r].pc = "wait"
  /\ \A p \in RunIds : pollers[p].pc # "iter"


\* identifier i of the list ldaps matches contact c
MatchesAt(ldaps, i, c) ==
  /\ Lower(Strip(ldaps[i])) # << >>
  /\ Lower(Strip(ldaps[i])) \in ContactTokens(c)

\* the position of the first identifier that matches c, 0 if none does
FirstMatch(ldaps, c) ==
  IF \E i \in 1 .. Len(ldaps) : MatchesAt(ldaps, i, c)
    THEN CHOOSE i \in 1 .. Len(ldaps) :
           /\ MatchesAt(ldaps, i, c)
           /\ \A j \in 1 .. (i - 1) : ~MatchesAt(ldaps, j, c)
    ELSE 0

\* C35: for the identifiers the on-call source returned, the mapped list
\* holds exactly the contacts of the directory that some identifier
\* matches, each once, ordered by the position of the first identifier
\* that matches them; an identifier that matches nobody adds nothing, and
\* the list is empty exactly when no identifier matches a contact.
C35_MappingOfOncallLdaps ==
  LET ldaps == daily_input.oncall.ldaps
      res == map_oncall_ldaps_to_contacts(ldaps)
  IN /\ \A i, j \in 1 .. Len(res) : i # j => res[i] # res[j]
     /\ {res[i] : i \in 1 .. Len(res)}
          = {c \in ConfigContacts : FirstMatch(ldaps, c) # 0}
     /\ \A i, j \in 1 .. Len(res) :
          i < j => FirstMatch(ldaps, res[i]) <= FirstMatch(ldaps, res[j])
     /\ res = << >>
          <=> \A i \in 1 .. Len(ldaps) : \A c \in ConfigContacts :
                ~MatchesAt(ldaps, i, c)

\* notify-today has started a run for Bob and Carol from the identifiers
\* "ro", which is the on-call identifier of both, and " bo ", which matches
\* Bob again
C35_Witness ==
  /\ daily_input.oncall.ldaps = <<<<"r","o">>, <<" ","b","o"," ">>>>
  /\ \E r \in RunIds : runs[r].pc = "initial" /\ runs[r].contacts = <<Bob, Carol>>


\* the step starts a run_session for the contacts cs: the last call of the
\* step is the one initial message, which mentions them, every call of the
\* reconciliation comes before it, and the group is reconciled to them
StartsSessionFor(cs) ==
  /\ \E r \in RunIds :
       /\ runs[r].pc = "unused"
       /\ runs'[r].pc = "initial"
       /\ runs'[r].contacts = cs
       /\ \A q \in RunIds \ {r} : runs'[q] = runs[q]
  /\ sent' # << >>
  /\ sent'[Len(sent')] = Message("initial", "", Mentions(cs), "")
  /\ \A i \in 1 .. (Len(sent') - 1) : sent'[i].kind # "initial"
  /\ ~SyncDisabled
       => /\ \E i \in 1 .. (Len(sent') - 1) :
               sent'[i].kind = "get_user_by_username"
          /\ duty_group'.members
               = {DirectoryIds[cs[i].ldap] : i \in 1 .. Len(cs)}
                 \cup {DirectoryIds[BOT_USERNAME]}

DailyProcedureRuns ==
  \/ logged' = "skip_weekend"
  \/ \E i \in 1 .. Len(sent') : sent'[i].kind = "oncall_query"

\* the step runs publish-next-week-schedule: it sends the weekly message
WeeklyProcedureRuns == \E i \in 1 .. Len(sent') : sent'[i].kind = "weekly"

\* C33: the daily and the weekly procedure run only in a step of their loop
\* whose wait reached the deadline with the stop signal not set; a loop
\* whose wait ends by the stop signal exits, sending nothing and starting
\* nothing; and a loop that has exited never runs its procedure again.
C33_NoProcedureAfterStop ==
  [][ /\ DailyProcedureRuns => (~stop_event /\ daily = "waiting")
      /\ WeeklyProcedureRuns => (~stop_event /\ weekly = "waiting")
      /\ (stop_event /\ daily = "waiting")
           => /\ daily' \in {"waiting", "stopped", "cancelled"}
              /\ daily' # "waiting"
                   => (sent' = << >> /\ UNCHANGED <<runs, session>>)
      /\ (stop_event /\ weekly = "waiting")
           => weekly' \in {"waiting", "stopped", "cancelled"}
      /\ daily \in {"stopped", "cancelled", "crashed"} => daily' = daily
      /\ weekly \in {"stopped", "cancelled", "crashed"} => weekly' = weekly
    ]_vars

\* both loops have left their wait because the stop signal was set, and the
\* step that ended the second wait sent nothing
C33_Witness ==
  /\ stop_event
  /\ daily = "stopped"
  /\ weekly = "stopped"
  /\ sent = << >>
  /\ logged = ""


\* C34: once a run_session has returned, the poller task it created has
\* terminated: it is neither waiting for its next fetch nor inside a batch.
C34_PollerEndsWithRun ==
  \A r \in RunIds : runs[r].pc = "done" => pollers[r].pc = "unused"

\* C36: for every date today, the week published by the weekly procedure
\* starts on a Monday strictly after today and at most 7 days after it
\* (exactly today + 7 when today is a Monday), and the published range ends
\* on the Sunday 6 days after that Monday.
C36_PublishedWeekIsNextWeek ==
  [][ weekly_notify(weekly_input)
        => LET today == weekly_input.today
               start == sent'[1].period[1]
               end == sent'[1].period[2]
           IN /\ Weekday(start) = 0
              /\ start > today
              /\ start <= today + 7
              /\ (Weekday(today) = 0 => start = today + 7)
              /\ end = start + 6
              /\ Weekday(end) = 6 ]_vars

\* the schedule has been published on a Monday, for the week that starts
\* seven days later
C36_Witness ==
  /\ Len(sent) = 1
  /\ sent[1].kind = "weekly"
  /\ weekly_input.today = 7
  /\ sent[1].period = <<14, 20>>

\* C37: a message that is not the bot's and has both the stop and the take
\* keyword is handled as a stop, whether or not its author is a contact or
\* mentions the bot: every contact of the session is acknowledged, the
\* session is acknowledged, the signal is set, and exactly one confirmation
\* is sent, in the thread.
C37_StopAndTakeIsStop ==
  [][ Pending
        => \A e \in StopTakePushBatch :
             handle_push(e)
               => /\ session'.acknowledged
                  /\ known_ldaps(session) \subseteq session'.acknowledged_ldaps
                  /\ contacts_pending_ack(session') = << >>
                  /\ ack_event'
                  /\ Len(sent') = 1
                  /\ sent'[1].kind = "ack"
                  /\ sent'[1].root_id = session.thread_id ]_vars

\* a message with both keywords has been answered by a confirmation in a
\* session of two contacts, which is acknowledged for both and still active
C37_Witness ==
  /\ Len(sent) = 1
  /\ sent[1].kind = "ack"
  /\ sent[1].cmd = "stop_take"
  /\ session # NoSession
  /\ Len(session.contacts) = 2
  /\ session.acknowledged
  /\ session.acknowledged_ldaps = {AliceLdap, BobLdap}

\* C38: in every reachable state with a session, the handles recorded as
\* acknowledged are handles of contacts of that session: no take and no stop,
\* whoever wrote it, records any other handle.
C38_AcknowledgedByAreContacts ==
  session # NoSession => session.acknowledged_ldaps \subseteq known_ldaps(session)

\* a pending session of Alice and Bob in which a poller has delivered post
\* "e2" and Alice's is the only handle recorded: "e2" was the take of a user
\* who is no contact and mentions the bot (Bob's take or a stop under that
\* id would have recorded Bob's handle)
C38_Witness ==
  /\ Pending
  /\ Len(session.contacts) = 2
  /\ "e2" \in session.processed_post_ids
  /\ session.acknowledged_ldaps = {AliceLdap}

\* the setting loop.admin_group_id names no group: it is empty or blank
NoGroupId ==
  \A i \in 1 .. Len(duty_group.admin_group_id) :
    duty_group.admin_group_id[i] = " "

\* the handles of contacts and the bot's that resolve to a user id
Resolving(contacts) ==
  {u \in SyncUsernames(contacts) : duty_group.ids[u] # ""}

\* C39: group reconciliation makes no add call and no remove call, and
\* leaves the members as they are, when no group id is configured, when no
\* desired handle resolves to a user id, or when the member list cannot be
\* read; and with a group id every desired handle is looked up, whichever
\* of them fail to resolve: the ones that resolve are all in the add call
\* or members already.
C39_NoChangeWithoutIdsOrMembers ==
  [][ \A contacts \in SyncContactLists :
        \A failed \in {"none", "remove", "add"} :
          sync_duty_group(contacts, failed)
            => /\ ( \/ NoGroupId
                    \/ Resolving(contacts) = {}
                    \/ ~duty_group.readable )
                  => /\ CallsOf("remove_group_members") = {}
                     /\ CallsOf("add_group_members") = {}
                     /\ UNCHANGED duty_group
               /\ NoGroupId => sent' = << >>
               /\ ~NoGroupId
                  => /\ Cardinality(CallsOf("get_user_by_username"))
                          = Cardinality(SyncUsernames(contacts))
                     /\ (duty_group.readable /\ failed = "none")
                        => \A u \in Resolving(contacts) :
                             duty_group.ids[u] \in duty_group'.members ]_vars

\* a reconciliation for Bob and Alice, the bot's handle failing to resolve
\* and the two contacts outside the group, has looked up three handles and
\* added the two contacts
C39_Witness ==
  /\ duty_group.ids[BOT_USERNAME] = ""
  /\ duty_group.readable
  /\ ~NoGroupId
  /\ Cardinality({i \in 1 .. Len(sent) :
                    sent[i].kind = "get_user_by_username"}) = 3
  /\ \E i \in 1 .. Len(sent) :
       /\ sent[i].kind = "add_group_members"
       /\ sent[i].user_ids = {"u-al", "u-bo"}
  /\ duty_group.members = {"u-al", "u-bo"}

\* the signal is set only for an acknowledged session
SignalMeansAcknowledged ==
  (session # NoSession /\ ack_event) => session.acknowledged

\* C40: the acknowledgement signal is consistent with the session.  The step
\* that makes a new session visible leaves the signal cleared; in every
\* reachable state with an active session the signal is set only if the
\* session is acknowledged; and so no reminder wait is ended by the signal
\* while the active session is pending: a signal an earlier session left
\* set does not end the wait of a later one.
C40_SignalConsistentWithSession ==
  /\ []SignalMeansAcknowledged
  /\ [][ \A r \in RunIds :
           /\ initial_sent(r)
                => /\ session' # NoSession
                   /\ ~session'.acknowledged
                   /\ ~ack_event'
           /\ reminder_signalled(r) => ~Pending ]_vars

\* the first run has left its reminder loop and ended without an exception,
\* and the session of the second run is pending with the signal cleared, the
\* run in its reminder wait
C40_Witness ==
  /\ runs[1].pc = "done"
  /\ ~runs[1].exc
  /\ runs[2].pc = "wait"
  /\ Pending
  /\ session.message_id = MessageIds[2]
  /\ ~ack_event

==============================================================================
